---- MODULE Spec2Model ----
(***************************************************************************)
(* Model of private-session.js (spicetify "private session" extension).    *)
(*                                                                         *)
(* The script is single threaded: every synchronous run of code between    *)
(* two awaits is one atomic step here.  Time is the value of Date.now()    *)
(* in milliseconds; it advances in steps of Quantum, and a timer fires     *)
(* when the clock reaches its deadline, timers with the same deadline in   *)
(* the order they were created.                                            *)
(***************************************************************************)
EXTENDS Integers, Sequences, FiniteSets, TLC

(***************************************************************************)
(* Constants of the script (lines 1-23) and the delays written inline.     *)
(***************************************************************************)
PS_PRIVATE_SESSION_LABEL_TEXT == "Private session"
PS_PERSISTENT_SESSION_LABEL_TEXT == "Persistent Privacy"
PS_RETRY_LIMIT == 3
PS_INDICATOR_RETRIES == 2
PS_DELAY_MS == 100
MENU_OPERATION_COOLDOWN == 500
PS_PERSISTENT_ITEM_ID == "ps-persistent-item"
STORAGE_KEY == "private-session-persistent-mode"
MENU_CLOSE_RECHECK_MS == 150
MENU_OPEN_SETTLE_MS == 150
FOCUS_CHECK_DELAY_MS == 500
INIT_SETTLE_MS == 800
MAX_RETRIES == 10
RETRY_DELAY == 100

\* The five selectors of PS_CSS_SELECTORS that the script queries the document with.
MAIN_MENU == "MAIN_MENU"
PROFILE_DROPDOWN_MENU == "PROFILE_DROPDOWN_MENU"
MENU_ITEM_BUTTON == "MENU_ITEM_BUTTON"
PRIVATE_SESSION_INDICATOR_CONTAINER == "PRIVATE_SESSION_INDICATOR_CONTAINER"

(***************************************************************************)
(* Bounds of the model.                                                    *)
(***************************************************************************)
\* Number of clock quanta the model runs for.
Horizon == 40
\* Host / user events (focus, visibility, host DOM changes) per behaviour.
MaxEvents == 2
\* Visibility-change listeners the document may accumulate.
MaxVisibilityListeners == 3
\* Host DOM changes the observer may be handed in one batch.
MaxBatch == 3

\* The clock step: the greatest common divisor of all delays of the script.
Quantum == PS_DELAY_MS \div 2
\* Date.now() when the script is loaded: more than a cooldown after the epoch.
StartTime == MENU_OPERATION_COOLDOWN
EndTime == StartTime + Horizon * Quantum

VARIABLES
  persistentModeEnabled,   \* line 26
  focusEventListener,      \* line 27: TRUE when it holds a function, FALSE when null
  menuItemAdded,           \* line 28
  menuOperationInProgress, \* line 29
  lastMenuOperationTime,   \* line 30
  pendingFocusCheck,       \* line 31
  menuCloseTimer,          \* line 32: TRUE when it holds a timer id, FALSE when null
  localStorage,            \* the value stored under STORAGE_KEY, or Absent
  windowFocusListeners,    \* number of 'focus' listeners registered on window
  visibilityListeners,     \* number of 'visibilitychange' listeners on document
  now,                     \* Date.now()
  timers,                  \* pending setTimeout callbacks, in firing order
  indicator,               \* the private-session indicator button is in the global nav
  mainMenuButton,          \* an element matching MAIN_MENU is in the document
  menu,                    \* the open menu list (a sequence of <li>), or NoMenu
  observer,                \* the mutation observer is installed (line 767)
  ready,                   \* the host's readiness predicate (line 828)
  hidden,                  \* document.hidden
  proc,                    \* the async invocations in flight, by slot
  events,                  \* host/user events so far
  hist                     \* unit harness: the last two calls and the states before them

vars == << persistentModeEnabled, focusEventListener, menuItemAdded,
           menuOperationInProgress, lastMenuOperationTime, pendingFocusCheck,
           menuCloseTimer, localStorage, windowFocusListeners,
           visibilityListeners, now, timers, indicator, mainMenuButton, menu,
           observer, ready, hidden, proc, events, hist >>

(***************************************************************************)
(* The document: menu lists.                                               *)
(*                                                                         *)
(* A menu list is a sequence of <li> elements.  Each <li> holds one <span> *)
(* (label), possibly wrapped in a <button> (button), possibly with a       *)
(* "checked" <svg> in that button (svg); id is the element id; toggle is   *)
(* the .sidebar-checkbox element of the item: its innerHTML and title, or  *)
(* NoToggle.                                                               *)
(***************************************************************************)
NoMenu == << >>
NoToggle == [innerHTML |-> "", title |-> ""]
Absent == "<absent>"
Null == 0

HostItem(label, button, svg) ==
  [id |-> "", label |-> label, button |-> button, svg |-> svg, toggle |-> NoToggle]

\* String.prototype.trim on the labels the model uses.
Trim(s) ==
  CASE s = " Private session " -> "Private session"
    [] s = "Private session " -> "Private session"
    [] OTHER -> s

\* Boolean.prototype.toString (line 155).
BooleanToString(b) == IF b THEN "true" ELSE "false"

\* Index of the first element of seq that satisfies Test, or Null.
FirstIndex(seq, Test(_)) ==
  IF \E i \in 1..Len(seq) : Test(seq[i])
  THEN CHOOSE i \in 1..Len(seq) : Test(seq[i]) /\ \A j \in 1..(i-1) : ~Test(seq[j])
  ELSE Null

\* Element.after: seq with x inserted after position i.
InsertAfter(seq, i, x) == SubSeq(seq, 1, i) \o << x >> \o SubSeq(seq, i + 1, Len(seq))

\* menuList.querySelector("#ps-persistent-item"): index of the item, or Null.
QueryPersistentItem(menuList) ==
  LET HasId(li) == li.id = PS_PERSISTENT_ITEM_ID IN FirstIndex(menuList, HasId)

(***************************************************************************)
(* Persistence store (lines 154-166).                                      *)
(***************************************************************************)
savePersistentModeSettingBad(enabled) == IF enabled THEN "1" ELSE "0"
\* The value written under STORAGE_KEY.
savePersistentModeSetting(enabled) == BooleanToString(enabled)

\* The flag read back from the stored value.
loadPersistentModeSetting(savedSetting) == savedSetting = "true"

(***************************************************************************)
(* Toggle visuals (lines 381-403, 563-570).                                *)
(***************************************************************************)
createToggleSwitch(isEnabled) ==
  IF isEnabled THEN "background:#1DB954;left:22px" ELSE "background:#535353;left:2px"

ToggleTitle(enabled) ==
  IF enabled THEN "Click to disable persistent privacy mode"
             ELSE "Click to enable persistent privacy mode"

createToggleElement(enabled) ==
  [innerHTML |-> createToggleSwitch(enabled), title |-> ToggleTitle(enabled)]

(***************************************************************************)
(* Persistent-mode controller (lines 324-374, 448-474).  The controller    *)
(* state is the record Ctl; each function maps a controller state to the   *)
(* one it leaves.                                                          *)
(***************************************************************************)
Ctl ==
  [persistentModeEnabled |-> persistentModeEnabled,
   focusEventListener |-> focusEventListener,
   localStorage |-> localStorage,
   windowFocusListeners |-> windowFocusListeners,
   visibilityListeners |-> visibilityListeners]

enablePersistentModeNoSave(c) ==
  LET c1 == [c EXCEPT !.persistentModeEnabled = TRUE]
  IN IF ~c1.focusEventListener
     THEN [c1 EXCEPT !.focusEventListener = TRUE,
                     !.windowFocusListeners = @ + 1,
                     !.visibilityListeners = @ + 1]
     ELSE c1

enablePersistentModeAlwaysInstalls(c) ==
  [c EXCEPT !.persistentModeEnabled = TRUE,
            !.localStorage = savePersistentModeSetting(TRUE),
            !.focusEventListener = TRUE,
            !.windowFocusListeners = @ + 1,
            !.visibilityListeners = @ + 1]

enablePersistentMode(c) ==
  LET c1 == [c EXCEPT !.persistentModeEnabled = TRUE,
                      !.localStorage = savePersistentModeSetting(TRUE)]
  IN IF ~c1.focusEventListener
     THEN [c1 EXCEPT !.focusEventListener = TRUE,
                     !.windowFocusListeners = @ + 1,
                     !.visibilityListeners = @ + 1]
     ELSE c1

disablePersistentModeKeepsListener(c) ==
  [c EXCEPT !.persistentModeEnabled = FALSE,
            !.localStorage = savePersistentModeSetting(FALSE)]

disablePersistentMode(c) ==
  LET c1 == [c EXCEPT !.persistentModeEnabled = FALSE,
                      !.localStorage = savePersistentModeSetting(FALSE)]
  IN IF c1.focusEventListener
     THEN [c1 EXCEPT !.focusEventListener = FALSE,
                     !.windowFocusListeners = @ - 1]
     ELSE c1

togglePersistentMode(c) ==
  LET flipped == ~c.persistentModeEnabled
      c1 == [c EXCEPT !.persistentModeEnabled = flipped,
                      !.localStorage = savePersistentModeSetting(flipped)]
  IN IF c1.persistentModeEnabled THEN enablePersistentMode(c1)
                                 ELSE disablePersistentMode(c1)

\* The controller variables take the values of controller state c.
SetCtl(c) ==
  /\ persistentModeEnabled' = c.persistentModeEnabled
  /\ focusEventListener' = c.focusEventListener
  /\ localStorage' = c.localStorage
  /\ windowFocusListeners' = c.windowFocusListeners
  /\ visibilityListeners' = c.visibilityListeners

ctlVars == << persistentModeEnabled, focusEventListener, localStorage,
              windowFocusListeners, visibilityListeners >>

(***************************************************************************)
(* Menu-item injector: item creation and refresh (lines 409-443, 482-615). *)
(***************************************************************************)
\* findItemByText: the <button> around the first span whose text is exactly
\* `text`: the index of its <li>, or Null when there is no such span or the
\* span is not inside a button.
findItemByText(menuList, text) ==
  LET HasText(li) == li.label = text
      i == FirstIndex(menuList, HasText)
  IN IF i # Null /\ menuList[i].button THEN i ELSE Null

findPrivateSessionItemOneMore(menuList, retryCount) ==
  LET IsPs(li) == li.label = PS_PRIVATE_SESSION_LABEL_TEXT
      i == FirstIndex(menuList, IsPs)
  IN [item |-> i, retry |-> (i = Null /\ retryCount <= MAX_RETRIES)]

\* findPrivateSessionItem: the <li> around the first span whose text is exactly
\* the private-session label, or Null.  retry tells whether a retry timer is set.
findPrivateSessionItem(menuList, retryCount) ==
  LET IsPs(li) == li.label = PS_PRIVATE_SESSION_LABEL_TEXT
      i == FirstIndex(menuList, IsPs)
  IN [item |-> i, retry |-> (i = Null /\ retryCount < MAX_RETRIES)]

\* createPersistentMenuItem: the custom <li>: a <div role=menuitem> (not a
\* <button>) with the label span and the toggle element.
createPersistentMenuItem(enabled) ==
  [id |-> PS_PERSISTENT_ITEM_ID, label |-> PS_PERSISTENT_SESSION_LABEL_TEXT,
   button |-> FALSE, svg |-> FALSE, toggle |-> createToggleElement(enabled)]

\* addPersistentPrivacyItem: the list with the custom item inserted after the
\* private-session <li>, or the list unchanged when that <li> is not found.
addPersistentPrivacyItem(menuList, retryCount, enabled) ==
  LET found == findPrivateSessionItem(menuList, retryCount)
  IN IF found.item = Null THEN menuList
     ELSE InsertAfter(menuList, found.item, createPersistentMenuItem(enabled))

\* updateToggleContainer: the <li> with the toggle of its button rewritten.
updateToggleContainer(li, enabled) ==
  [li EXCEPT !.toggle = createToggleElement(enabled)]

\* updatePersistentMenuItemState(menuItemElement): looks for a <button> inside
\* the item and returns without a change when there is none.
updatePersistentMenuItemState(menuList, i, enabled) ==
  IF i = Null THEN menuList
  ELSE IF ~menuList[i].button THEN menuList
  ELSE [menuList EXCEPT ![i] = updateToggleContainer(menuList[i], enabled)]

ensurePersistentMenuItemBad(menuList, enabled) ==
  IF menuList = NoMenu THEN menuList
  ELSE IF findItemByText(menuList, PS_PRIVATE_SESSION_LABEL_TEXT) = Null THEN menuList
  ELSE addPersistentPrivacyItem(menuList, 0, enabled)

\* ensurePersistentMenuItem(menuList): the list it leaves.
ensurePersistentMenuItem(menuList, enabled) ==
  IF menuList = NoMenu THEN menuList
  ELSE IF findItemByText(menuList, PS_PRIVATE_SESSION_LABEL_TEXT) = Null THEN menuList
  ELSE LET persistentItem == QueryPersistentItem(menuList)
       IN IF persistentItem # Null
          THEN updatePersistentMenuItemState(menuList, persistentItem, enabled)
          ELSE addPersistentPrivacyItem(menuList, 0, enabled)

ClickedItemStale(li, enabled) == li

\* The click handler of the custom item (lines 583-588): toggles the mode and
\* rewrites the toggle element of that item.
ClickedItem(li, enabled) == [li EXCEPT !.toggle = createToggleElement(enabled)]

(***************************************************************************)
(* State after the script is loaded (lines 26-32), in a document whose     *)
(* storage and DOM the host owns.                                          *)
(***************************************************************************)
StoredValues == {Absent, "true", "false", "TRUE", "1", ""}

ProfileMenu(checked) ==
  << HostItem("Account", TRUE, FALSE),
     HostItem(PS_PRIVATE_SESSION_LABEL_TEXT, TRUE, checked),
     HostItem("Settings", TRUE, FALSE),
     HostItem("Log out", TRUE, FALSE) >>

\* The menu as the host may show it before the private-session entry is rendered.
PartialMenu == << HostItem("Account", TRUE, FALSE), HostItem("Settings", TRUE, FALSE) >>

ContextMenu == << HostItem("Add to queue", TRUE, FALSE), HostItem("Share", TRUE, FALSE) >>

\* Synthetic lists for the unit harness.
MenuTemplates ==
  { NoMenu, ProfileMenu(FALSE), ProfileMenu(TRUE), PartialMenu, ContextMenu,
    << HostItem("Account", TRUE, FALSE), HostItem(PS_PRIVATE_SESSION_LABEL_TEXT, TRUE, FALSE) >>,
    << HostItem(PS_PRIVATE_SESSION_LABEL_TEXT, FALSE, FALSE), HostItem("Settings", TRUE, FALSE) >>,
    << HostItem("Private session ", TRUE, FALSE), HostItem("Settings", TRUE, FALSE) >> }

ProcIds == {"boot", "fc1", "fc2", "c1", "c2"}

\* One async invocation.  entry: the function called; pc: the await it is
\* suspended at; retry: retryCount of the loop it is in; caller: who awaits
\* isPrivateSessionActive; result: the value returned.  The other fields record
\* what the invocation did: began (Date.now() when startPrivateSession was
\* entered),
\* tookLock (prepareMenuOperation ran), clicks (click() calls), queried (the
\* document was queried), threw (the error thrown inside the composite
\* operation), cleaned (cleanupMenuOperation ran), log (what each attempt of
\* the current locator loop found), waits (delays of that loop), loaded (the
\* flag loadPersistentModeSetting read at initialization).
IdleProc ==
  [entry |-> "none", pc |-> "idle", retry |-> 0, forceOpen |-> FALSE,
   caller |-> "none", selector |-> "none", multiple |-> FALSE,
   result |-> "none", began |-> 0, tookLock |-> FALSE,
   clicks |-> 0, queried |-> FALSE, threw |-> "none", cleaned |-> FALSE,
   log |-> << >>, waits |-> 0, loaded |-> "none"]

NoHist == [ops |-> << >>, before |-> << >>]

InitScript ==
  /\ persistentModeEnabled = FALSE
  /\ focusEventListener = FALSE
  /\ menuItemAdded = FALSE
  /\ menuOperationInProgress = FALSE
  /\ lastMenuOperationTime = 0
  /\ pendingFocusCheck = FALSE
  /\ menuCloseTimer = FALSE
  /\ windowFocusListeners = 0
  /\ visibilityListeners = 0
  /\ now = StartTime
  /\ timers = << >>
  /\ observer = FALSE
  /\ proc = [p \in ProcIds |-> IdleProc]
  /\ events = 0
  /\ hist = NoHist

(***************************************************************************)
(* Unit harness: the synchronous functions of the script called directly,  *)
(* in any order, on a synthetic storage and menu list.                     *)
(***************************************************************************)
Last2(seq) == IF Len(seq) > 2 THEN SubSeq(seq, Len(seq) - 1, Len(seq)) ELSE seq

\* Records call `op` and the controller state it starts from.
Log(op) ==
  hist' = [ops |-> Last2(Append(hist.ops, op)),
           before |-> Last2(Append(hist.before, Ctl))]

asyncVars == << menuItemAdded, menuOperationInProgress, lastMenuOperationTime,
                pendingFocusCheck, menuCloseTimer, now, timers, indicator,
                mainMenuButton, observer, ready, hidden, proc, events >>

InitUnit ==
  /\ InitScript
  /\ localStorage \in StoredValues
  /\ menu \in MenuTemplates
  /\ indicator = FALSE
  /\ mainMenuButton = TRUE
  /\ ready = TRUE
  /\ hidden = FALSE

UnitSave ==
  /\ SetCtl([Ctl EXCEPT !.localStorage = savePersistentModeSetting(persistentModeEnabled)])
  /\ Log("save")
  /\ UNCHANGED << asyncVars, menu >>

UnitLoad ==
  /\ SetCtl([Ctl EXCEPT !.persistentModeEnabled = loadPersistentModeSetting(localStorage)])
  /\ Log("load")
  /\ UNCHANGED << asyncVars, menu >>

UnitEnable ==
  /\ visibilityListeners < MaxVisibilityListeners
  /\ SetCtl(enablePersistentMode(Ctl))
  /\ Log("enable")
  /\ UNCHANGED << asyncVars, menu >>

UnitDisable ==
  /\ SetCtl(disablePersistentMode(Ctl))
  /\ Log("disable")
  /\ UNCHANGED << asyncVars, menu >>

UnitToggle ==
  /\ visibilityListeners < MaxVisibilityListeners
  /\ SetCtl(togglePersistentMode(Ctl))
  /\ Log("toggle")
  /\ UNCHANGED << asyncVars, menu >>

UnitEnsure ==
  /\ menu' = ensurePersistentMenuItem(menu, persistentModeEnabled)
  /\ Log("ensure")
  /\ UNCHANGED << asyncVars, ctlVars >>

\* A click on the custom item of the list.
UnitClickItem ==
  /\ visibilityListeners < MaxVisibilityListeners
  /\ QueryPersistentItem(menu) # Null
  /\ LET c == togglePersistentMode(Ctl)
         i == QueryPersistentItem(menu)
     IN /\ SetCtl(c)
        /\ menu' = [menu EXCEPT ![i] = ClickedItem(menu[i], c.persistentModeEnabled)]
  /\ Log("click")
  /\ UNCHANGED asyncVars

NextUnit ==
  \/ UnitSave
  \/ UnitLoad
  \/ UnitEnable
  \/ UnitDisable
  \/ UnitToggle
  \/ UnitEnsure
  \/ UnitClickItem

SpecUnit == InitUnit /\ [][NextUnit]_vars

(***************************************************************************)
(* Timers.  A pending callback is [at |-> deadline, who |-> what runs]:    *)
(* who is the slot of the invocation that awaits the delay, or             *)
(* "menuClose" for the close-verification callback of ensureMenuClosed.    *)
(***************************************************************************)
\* setTimeout: behind every timer that is due no later.
AddTimer(ts, at, who) ==
  LET k == Cardinality({i \in 1..Len(ts) : ts[i].at <= at})
  IN SubSeq(ts, 1, k) \o << [at |-> at, who |-> who] >> \o SubSeq(ts, k + 1, Len(ts))

\* clearTimeout.
RemoveTimer(ts, who) == SelectSeq(ts, LAMBDA t : t.who # who)

\* The callback of `who` is the next one to run.
Due(who) == timers # << >> /\ timers[1].at <= now /\ timers[1].who = who

(***************************************************************************)
(* The state a synchronous run of code works on: the script's variables,   *)
(* the document, the running invocation (me, in slot id), the mutation     *)
(* records the run has caused (mutations), and how the host answers the    *)
(* clicks of this run (host.full: a click that opens the account menu      *)
(* renders it with its private-session entry; host.closes: a click on a    *)
(* menu entry closes the menu).                                            *)
(***************************************************************************)
Hosts == [full : BOOLEAN, closes : BOOLEAN]
\* The answers that matter to a run that may open the menu, may click a menu
\* entry, or clicks nothing that the host answers in more than one way.
OpeningHosts == {h \in Hosts : h.closes}
EntryHosts == {h \in Hosts : h.full}
AnyHost == {h \in Hosts : h.full /\ h.closes}

World(id, host) ==
  [persistentModeEnabled |-> persistentModeEnabled,
   focusEventListener |-> focusEventListener,
   localStorage |-> localStorage,
   windowFocusListeners |-> windowFocusListeners,
   visibilityListeners |-> visibilityListeners,
   menuItemAdded |-> menuItemAdded,
   menuOperationInProgress |-> menuOperationInProgress,
   lastMenuOperationTime |-> lastMenuOperationTime,
   pendingFocusCheck |-> pendingFocusCheck,
   menuCloseTimer |-> menuCloseTimer,
   timers |-> timers,
   indicator |-> indicator,
   menu |-> menu,
   observer |-> observer,
   me |-> IF id \in ProcIds THEN proc[id] ELSE IdleProc,
   id |-> id,
   mutations |-> << >>,
   host |-> host]

\* A node of a mutation record: an element (nodeType 1) that holds the menu
\* list `list` (hasMenu), is itself the list (isMenu), holds the custom item
\* (hasItem); live: the list is the one in the document.
MenuNode(list, live) ==
  [nodeType |-> 1, hasMenu |-> TRUE, isMenu |-> TRUE,
   hasItem |-> QueryPersistentItem(list) # Null, list |-> list, live |-> live]

AddedRecord(node) == [addedNodes |-> << node >>, removedNodes |-> << >>]
RemovedRecord(node) == [addedNodes |-> << >>, removedNodes |-> << node >>]

\* What the host renders when the account menu opens.
HostOpens(w) == IF w.host.full THEN ProfileMenu(w.indicator) ELSE PartialMenu

\* The host's handler of a click on the account-menu button: it toggles the menu.
HostToggleMenu(w) ==
  IF w.menu = NoMenu
  THEN [w EXCEPT !.menu = HostOpens(w),
                 !.mutations = Append(@, AddedRecord(MenuNode(HostOpens(w), TRUE)))]
  ELSE [w EXCEPT !.menu = NoMenu,
                 !.mutations = Append(@, RemovedRecord(MenuNode(w.menu, FALSE)))]

\* The host's handler of a click on the private-session entry i of the menu:
\* the session and the entry's check mark flip, and the menu may close.
HostTogglePrivateSession(w, i) ==
  LET on == ~w.menu[i].svg
      w1 == [w EXCEPT !.indicator = on, !.menu[i].svg = on]
  IN IF w.host.closes
     THEN [w1 EXCEPT !.menu = NoMenu,
                     !.mutations = Append(@, RemovedRecord(MenuNode(w1.menu, FALSE)))]
     ELSE w1

\* menuButton.click()
ClickMainMenu(w) == HostToggleMenu([w EXCEPT !.me.clicks = @ + 1])

\* privateSessionMenuItem.click()
ClickMenuItem(w, i) == HostTogglePrivateSession([w EXCEPT !.me.clicks = @ + 1], i)

(***************************************************************************)
(* Document queries (lines 68-70, 91-107, 127-149).                        *)
(***************************************************************************)
\* document.querySelectorAll(selector): the matching elements, in order.
QueryAll(w, selector) ==
  CASE selector = MAIN_MENU -> IF mainMenuButton THEN << "menuButton" >> ELSE << >>
    [] selector = PROFILE_DROPDOWN_MENU -> IF w.menu # NoMenu THEN << "menuList" >> ELSE << >>
    [] selector = MENU_ITEM_BUTTON ->
         [k \in 1..Cardinality({i \in 1..Len(w.menu) : w.menu[i].button}) |-> "menuItemButton"]
    [] selector = PRIVATE_SESSION_INDICATOR_CONTAINER ->
         IF w.indicator THEN << "indicatorContainer" >> ELSE << >>
    [] OTHER -> << >>

isMenuItemSelected(li) == li.svg

isMenuItemWithLabel(li, labelText) == Trim(li.label) = labelText

\* searchForMenuItemButton: index of the first menu entry that is a button
\* whose label, trimmed, is labelText; Null when there is none.
searchForMenuItemButton(w, labelText) ==
  LET Matches(li) == li.button /\ isMenuItemWithLabel(li, labelText)
  IN FirstIndex(w.menu, Matches)

\* searchForPrivateSessionIndicator: whether the indicator button is found.
searchForPrivateSessionIndicator(w) == w.indicator

(***************************************************************************)
(* Menu-operation lock and menu closing (lines 182-225, 267-270, 316-319). *)
(***************************************************************************)
ensureMenuClosedNoCancel(w) ==
  IF w.menu # NoMenu /\ mainMenuButton
  THEN LET w2 == ClickMainMenu(w)
       IN [w2 EXCEPT !.timers = AddTimer(@, now + MENU_CLOSE_RECHECK_MS, "menuClose"),
                     !.menuCloseTimer = TRUE]
  ELSE w

\* ensureMenuClosed (lines 182-207).
ensureMenuClosed(w) ==
  LET w1 == IF w.menuCloseTimer
            THEN [w EXCEPT !.timers = RemoveTimer(@, "menuClose"),
                           !.menuCloseTimer = FALSE]
            ELSE w
  IN IF w1.menu # NoMenu /\ mainMenuButton
     THEN LET w2 == ClickMainMenu(w1)
          IN [w2 EXCEPT !.timers = AddTimer(@, now + MENU_CLOSE_RECHECK_MS, "menuClose"),
                        !.menuCloseTimer = TRUE]
     ELSE w1

\* The callback ensureMenuClosed leaves behind (lines 197-204).
menuCloseCallback(w) ==
  LET w1 == IF w.menu # NoMenu /\ mainMenuButton THEN ClickMainMenu(w) ELSE w
  IN [w1 EXCEPT !.menuCloseTimer = FALSE]

canPerformMenuOperation(w) ==
  IF w.menuOperationInProgress THEN FALSE
  ELSE IF now - w.lastMenuOperationTime < MENU_OPERATION_COOLDOWN THEN FALSE
  ELSE TRUE

prepareMenuOperation(w) ==
  [w EXCEPT !.menuOperationInProgress = TRUE,
            !.lastMenuOperationTime = now,
            !.me.tookLock = TRUE]

cleanupMenuOperationKeepsLock(w) == [ensureMenuClosed(w) EXCEPT !.me.cleaned = TRUE]

cleanupMenuOperation(w) ==
  [ensureMenuClosed(w) EXCEPT !.menuOperationInProgress = FALSE, !.me.cleaned = TRUE]

(***************************************************************************)
(* Mutation observer (lines 621-758).                                      *)
(***************************************************************************)
\* processAddedNodes: the first added element that is or holds a menu list
\* (menuList: that node, or the empty sequence for null).
processAddedNodes(addedNodes) ==
  LET IsMenu(node) == node.nodeType = 1 /\ node.hasMenu
      k == FirstIndex(addedNodes, IsMenu)
  IN [appeared |-> k # Null,
      menuList |-> IF k # Null THEN << addedNodes[k] >> ELSE << >>]

processRemovedNodes(removedNodes) ==
  \E k \in 1..Len(removedNodes) :
     /\ removedNodes[k].nodeType = 1
     /\ removedNodes[k].isMenu \/ removedNodes[k].hasItem

analyzeMutations(mutations, added) ==
  LET Hit(mutation) ==
        IF ~added THEN processAddedNodes(mutation.addedNodes).appeared
                  ELSE processRemovedNodes(mutation.removedNodes)
      k == FirstIndex(mutations, Hit)
  IN [menuAppeared |-> k # Null /\ ~added,
      menuDisappeared |-> k # Null /\ added,
      detectedMenuList |-> IF k # Null /\ ~added
                           THEN processAddedNodes(mutations[k].addedNodes).menuList
                           ELSE << >>]

HasSpan(menuList, text) == \E i \in 1..Len(menuList) : menuList[i].label = text

isProfileMenu(menuList) ==
  HasSpan(menuList, PS_PRIVATE_SESSION_LABEL_TEXT) \/ HasSpan(menuList, "Settings")

handleMenuAppearanceAnyProfile(w, node) ==
  LET menuList == IF node.live THEN w.menu ELSE node.list
  IN IF ~isProfileMenu(menuList) THEN w
     ELSE [w EXCEPT !.menu = IF node.live
                              THEN ensurePersistentMenuItem(menuList, w.persistentModeEnabled)
                              ELSE @,
                    !.menuItemAdded = TRUE,
                    !.lastMenuOperationTime = now]

\* handleMenuAppearance on the list of node: the list is the document's menu
\* when the node is live, else a list that is no longer in the document.
handleMenuAppearance(w, node) ==
  LET menuList == IF node.live THEN w.menu ELSE node.list
  IN IF ~isProfileMenu(menuList) THEN w
     ELSE IF HasSpan(menuList, PS_PRIVATE_SESSION_LABEL_TEXT)
     THEN [w EXCEPT !.menu = IF node.live
                              THEN ensurePersistentMenuItem(menuList, w.persistentModeEnabled)
                              ELSE @,
                    !.menuItemAdded = TRUE,
                    !.lastMenuOperationTime = now]
     ELSE w

handleMenuDisappearance(w) == [w EXCEPT !.menuItemAdded = FALSE]

handleMenuStateChanges(w, menuState) ==
  LET w1 == IF menuState.menuDisappeared THEN handleMenuDisappearance(w) ELSE w
  IN IF menuState.menuAppeared /\ menuState.detectedMenuList # << >> /\ ~w1.menuItemAdded
     THEN handleMenuAppearance(w1, menuState.detectedMenuList[1])
     ELSE w1

handleMutations(w) ==
  handleMenuStateChanges(w, analyzeMutations(w.mutations, w.menuItemAdded))

\* The end of a task: the observer, when installed, is handed the records of
\* the task before anything else runs.
Deliver(w) ==
  IF w.observer /\ w.mutations # << >>
  THEN [handleMutations(w) EXCEPT !.mutations = << >>]
  ELSE [w EXCEPT !.mutations = << >>]

\* The variables take the values the run of invocation w.id leaves.
Apply(w0) ==
  LET w == Deliver(w0)
  IN /\ SetCtl(w)
     /\ menuItemAdded' = w.menuItemAdded
     /\ menuOperationInProgress' = w.menuOperationInProgress
     /\ lastMenuOperationTime' = w.lastMenuOperationTime
     /\ pendingFocusCheck' = w.pendingFocusCheck
     /\ menuCloseTimer' = w.menuCloseTimer
     /\ timers' = w.timers
     /\ indicator' = w.indicator
     /\ menu' = w.menu
     /\ observer' = w.observer
     /\ proc' = IF w.id \in ProcIds THEN [proc EXCEPT ![w.id] = w.me] ELSE proc

(***************************************************************************)
(* The async functions (lines 40-60, 77-89, 113-125, 172-177, 230-314).    *)
(* Each operator runs the code from one point to the next await or to the  *)
(* return, and gives the state it leaves.                                  *)
(***************************************************************************)
\* await new Promise(resolve => setTimeout(resolve, ms)) at await point pc.
Wait(w, ms, pc, retryCount) ==
  [w EXCEPT !.timers = AddTimer(@, now + ms, w.id),
            !.me.pc = pc, !.me.retry = retryCount]

\* The invocation returns result to the code that called the entry function.
Done(w, result) == [w EXCEPT !.me.pc = "done", !.me.result = result]

\* One more attempt of a locator loop, and what it found.
Attempt(w, found) == [w EXCEPT !.me.log = Append(@, found), !.me.queried = TRUE]
Delay(w) == [w EXCEPT !.me.waits = @ + 1]
NewLoop(w) == [w EXCEPT !.me.log = << >>, !.me.waits = 0]

catchErrorNoCleanup(w, error) == Done([w EXCEPT !.me.threw = error], "false")

\* catch (error) of startPrivateSession (lines 293-297).
catchError(w, error) ==
  Done(cleanupMenuOperation([w EXCEPT !.me.threw = error]), "false")

\* An error thrown by openMainMenu or activatePrivateSessionMenuItem: caught
\* by startPrivateSession, or thrown at the caller of activate.
Throw(w, error) ==
  IF w.me.entry = "activatePrivateSessionMenuItem"
  THEN Done([w EXCEPT !.me.threw = error], "throws")
  ELSE catchError(w, error)

\* The return of activatePrivateSessionMenuItem (line 261) and, inside the
\* composite operation, lines 312-313.
activateReturns(w) ==
  IF w.me.entry = "activatePrivateSessionMenuItem" THEN Done(w, "true")
  ELSE Done(cleanupMenuOperation(w), "true")

activateFoundAlwaysClicks(w, i) ==
  IF i = Null THEN Throw(w, PS_PRIVATE_SESSION_LABEL_TEXT)
  ELSE Wait(ClickMenuItem(w, i), PS_DELAY_MS, "clicked", 0)

\* activatePrivateSessionMenuItem after findMenuItemButton returned the menu
\* entry i, or Null (lines 249-261).
activateFound(w, i) ==
  IF i = Null THEN Throw(w, PS_PRIVATE_SESSION_LABEL_TEXT)
  ELSE IF ~isMenuItemSelected(w.menu[i])
  THEN Wait(ClickMenuItem(w, i), PS_DELAY_MS, "clicked", 0)
  ELSE activateReturns(w)

\* findMenuItemButton: the attempt numbered retryCount (lines 78-85).
findMenuItemButtonAttempt(w, retryCount) ==
  LET button == searchForMenuItemButton(w, PS_PRIVATE_SESSION_LABEL_TEXT)
      w1 == Attempt(w, button # Null)
  IN IF button # Null THEN activateFound(w1, button)
     ELSE Wait(Delay(w1), PS_DELAY_MS, "findItem", retryCount)

\* findMenuItemButton after a delay (lines 78, 87-88).
findMenuItemButtonResume(w) ==
  IF w.me.retry + 1 < PS_RETRY_LIMIT
  THEN findMenuItemButtonAttempt(w, w.me.retry + 1)
  ELSE activateFound(w, Null)

activatePrivateSessionMenuItem(w) == findMenuItemButtonAttempt(NewLoop(w), 0)

\* getElement returned `found` (an element, or null) to its caller: the
\* harness, or openMainMenu (lines 235-240).
getElementReturns(w, found) ==
  IF w.me.entry = "getElement"
  THEN Done(w, IF ~found THEN "null"
               ELSE IF w.me.multiple THEN "elements" ELSE "element")
  ELSE IF ~found THEN Throw(w, "menuButton")
  ELSE Wait(ClickMainMenu(w), PS_DELAY_MS * 2, "render", 0)

getElementAttemptExtra(w, retryCount) ==
  LET elements == QueryAll(w, w.me.selector)
      w1 == Attempt(w, Len(elements) > 0)
  IN IF Len(elements) > 0 /\ retryCount > 0 THEN getElementReturns(w1, TRUE)
     ELSE Wait(Delay(w1), PS_DELAY_MS, "getElement", retryCount)

\* getElement: the attempt numbered retryCount (lines 41-56).
getElementAttempt(w, retryCount) ==
  LET elements == QueryAll(w, w.me.selector)
      w1 == Attempt(w, Len(elements) > 0)
  IN IF Len(elements) > 0 THEN getElementReturns(w1, TRUE)
     ELSE Wait(Delay(w1), PS_DELAY_MS, "getElement", retryCount)

\* getElement after a delay (lines 41, 58-59).
getElementResume(w) ==
  IF w.me.retry + 1 < PS_RETRY_LIMIT
  THEN getElementAttempt(w, w.me.retry + 1)
  ELSE getElementReturns(w, FALSE)

getElement(w, selector, multiple) ==
  getElementAttempt(NewLoop([w EXCEPT !.me.selector = selector,
                                      !.me.multiple = multiple]), 0)

\* openMainMenu up to its first await (lines 231-232).
openMainMenu(w) == Wait(ensureMenuClosed(w), MENU_OPEN_SETTLE_MS, "closeWait", 0)

handlePrivateSessionActivationNoForceCheck(w) == openMainMenu(prepareMenuOperation(w))

\* handlePrivateSessionActivation up to its first await (lines 300-309).
handlePrivateSessionActivation(w) ==
  IF ~w.me.forceOpen THEN Done(w, "false")
  ELSE openMainMenu(prepareMenuOperation(w))

\* startPrivateSession after isPrivateSessionActive returned (lines 286-291).
startAfterIsActive(w, isActive) ==
  IF isActive THEN Done(w, "true") ELSE handlePrivateSessionActivation(w)

\* findPrivateSessionIndicator: the attempt numbered retryCount (lines
\* 114-120); Returns is the code that awaits isPrivateSessionActive.
findPrivateSessionIndicatorAttempt(w, retryCount, Returns(_, _)) ==
  LET found == searchForPrivateSessionIndicator(w)
      w1 == Attempt(w, found)
  IN IF found THEN Returns(w1, TRUE)
     ELSE Wait(Delay(w1), PS_DELAY_MS, "indicator", retryCount)

\* findPrivateSessionIndicator after a delay (lines 114, 123-124).
findPrivateSessionIndicatorResume(w, Returns(_, _)) ==
  IF w.me.retry + 1 < PS_INDICATOR_RETRIES
  THEN findPrivateSessionIndicatorAttempt(w, w.me.retry + 1, Returns)
  ELSE Returns(w, FALSE)

isPrivateSessionActive(w, caller, Returns(_, _)) ==
  findPrivateSessionIndicatorAttempt(NewLoop([w EXCEPT !.me.caller = caller]), 0, Returns)

\* startPrivateSession up to its first await (lines 277-285).
startPrivateSession(w, forceOpen) ==
  LET w1 == [w EXCEPT !.me.forceOpen = forceOpen, !.me.began = now]
  IN IF ~canPerformMenuOperation(w1) THEN Done(w1, "false")
     ELSE isPrivateSessionActive(w1, "start", startAfterIsActive)

focusCheckAfterIsActiveIdle(w, isActive) == Done(w, "undefined")

\* The delayed focus check after isPrivateSessionActive returned (lines 351-359).
focusCheckAfterIsActive(w, isActive) ==
  IF ~isActive /\ w.persistentModeEnabled THEN startPrivateSession(w, TRUE)
  ELSE Done(w, "undefined")

focusCheckUnguarded(w) ==
  isPrivateSessionActive([w EXCEPT !.pendingFocusCheck = FALSE, !.me.queried = TRUE],
                         "focus", focusCheckAfterIsActive)

\* The delayed focus check, from its timer to its first await (lines 338-350).
focusCheck(w) ==
  LET w1 == [w EXCEPT !.pendingFocusCheck = FALSE, !.me.queried = TRUE]
      openMenu == w1.menu # NoMenu
  IN IF ~w1.persistentModeEnabled \/ w1.menuOperationInProgress \/ openMenu
     THEN Done(w1, "undefined")
     ELSE isPrivateSessionActive(w1, "focus", focusCheckAfterIsActive)

focusEventListenerCallNoDebounce(w, slot) ==
  [w EXCEPT !.pendingFocusCheck = TRUE,
            !.timers = AddTimer(@, now + FOCUS_CHECK_DELAY_MS, slot)]

\* focusEventListener (lines 330-364): schedules the delayed check in slot.
focusEventListenerCall(w, slot) ==
  IF ~w.pendingFocusCheck
  THEN [w EXCEPT !.pendingFocusCheck = TRUE,
                 !.timers = AddTimer(@, now + FOCUS_CHECK_DELAY_MS, slot)]
  ELSE w

initializeAfterSecondCheckIfEnabled(w, isActive) ==
  IF ~isActive /\ w.persistentModeEnabled THEN startPrivateSession(w, TRUE)
  ELSE Done(w, "undefined")

\* initializePrivateSession after the last isPrivateSessionActive (lines 816-823).
initializeAfterSecondCheck(w, isActive) ==
  IF ~isActive THEN startPrivateSession(w, TRUE) ELSE Done(w, "undefined")

\* initializePrivateSession after the first isPrivateSessionActive (lines 802-812).
initializeAfterFirstCheck(w, isActive) ==
  LET w1 == IF w.persistentModeEnabled
            THEN enablePersistentMode(w) ELSE w
  IN Wait(w1, INIT_SETTLE_MS, "settle", 0)

\* initializePrivateSession up to its first await (lines 788-799).
initializePrivateSession(w) ==
  LET loaded == loadPersistentModeSetting(w.localStorage)
      w1 == [w EXCEPT !.persistentModeEnabled = loaded,
                      !.observer = TRUE,
                      !.me.loaded = BooleanToString(loaded)]
  IN isPrivateSessionActive(w1, "bootFirst", initializeAfterFirstCheck)

\* privateSessionMain: one pass of its loop (lines 778-783).
privateSessionMain(w) ==
  IF ~ready THEN Wait(w, PS_DELAY_MS, "poll", 0) ELSE initializePrivateSession(w)

isActiveReturnsTrue(w, isActive) == Done(w, "true")

\* isPrivateSessionActive returned to the harness.
isActiveReturns(w, isActive) == Done(w, BooleanToString(isActive))

\* findPrivateSessionIndicator goes on, for the code that awaits it.
findPrivateSessionIndicatorContinue(w) ==
  CASE w.me.caller = "start" -> findPrivateSessionIndicatorResume(w, startAfterIsActive)
    [] w.me.caller = "focus" -> findPrivateSessionIndicatorResume(w, focusCheckAfterIsActive)
    [] w.me.caller = "bootFirst" ->
         findPrivateSessionIndicatorResume(w, initializeAfterFirstCheck)
    [] w.me.caller = "bootSecond" ->
         findPrivateSessionIndicatorResume(w, initializeAfterSecondCheck)
    [] w.me.caller = "harness" -> findPrivateSessionIndicatorResume(w, isActiveReturns)

\* The timer of a suspended invocation fires.
popTimer(w) == [w EXCEPT !.timers = Tail(@)]

(***************************************************************************)
(* Steps of the event loop.                                                *)
(***************************************************************************)
envVars == << now, mainMenuButton, ready, hidden, events, hist >>

Started == \E p \in ProcIds : proc[p].pc # "idle"

NoneDue == IF timers = << >> THEN TRUE ELSE timers[1].at > now

\* The clock advances when no callback is due.
Tick ==
  /\ Started
  /\ now < EndTime
  /\ NoneDue
  /\ now' = now + Quantum
  /\ UNCHANGED << persistentModeEnabled, focusEventListener, menuItemAdded,
                  menuOperationInProgress, lastMenuOperationTime,
                  pendingFocusCheck, menuCloseTimer, localStorage,
                  windowFocusListeners, visibilityListeners, timers, indicator,
                  mainMenuButton, menu, observer, ready, hidden, proc, events, hist >>

\* The state the callback of invocation p starts from.
Woken(p, host) == popTimer(World(p, host))

\* privateSessionMain polls the readiness predicate again (line 780).
PollFires ==
  \E p \in ProcIds, host \in AnyHost :
     /\ Due(p)
     /\ proc[p].pc = "poll"
     /\ Apply(privateSessionMain(Woken(p, host)))
     /\ UNCHANGED envVars

\* The delayed focus check runs (line 338).
FocusCheckFires ==
  \E p \in ProcIds, host \in AnyHost :
     /\ Due(p)
     /\ proc[p].pc = "timer"
     /\ Apply(focusCheck(Woken(p, host)))
     /\ UNCHANGED envVars

\* findPrivateSessionIndicator goes on after its delay (line 120).
IndicatorDelayOver ==
  \E p \in ProcIds, host \in AnyHost :
     /\ Due(p)
     /\ proc[p].pc = "indicator"
     /\ Apply(findPrivateSessionIndicatorContinue(Woken(p, host)))
     /\ UNCHANGED envVars

\* initializePrivateSession goes on after the settle delay (line 812).
SettleDelayOver ==
  \E p \in ProcIds, host \in AnyHost :
     /\ Due(p)
     /\ proc[p].pc = "settle"
     /\ Apply(isPrivateSessionActive(Woken(p, host), "bootSecond",
                                     initializeAfterSecondCheck))
     /\ UNCHANGED envVars

\* openMainMenu goes on after closing the menu (lines 232-234).
CloseDelayOver ==
  \E p \in ProcIds, host \in OpeningHosts :
     /\ Due(p)
     /\ proc[p].pc = "closeWait"
     /\ Apply(getElement(Woken(p, host), MAIN_MENU, FALSE))
     /\ UNCHANGED envVars

\* getElement goes on after its delay (line 56).
GetElementDelayOver ==
  \E p \in ProcIds, host \in OpeningHosts :
     /\ Due(p)
     /\ proc[p].pc = "getElement"
     /\ Apply(getElementResume(Woken(p, host)))
     /\ UNCHANGED envVars

\* openMainMenu returns after the render delay (lines 240-241, 310).
RenderDelayOver ==
  \E p \in ProcIds, host \in EntryHosts :
     /\ Due(p)
     /\ proc[p].pc = "render"
     /\ Apply(activatePrivateSessionMenuItem(Woken(p, host)))
     /\ UNCHANGED envVars

\* findMenuItemButton goes on after its delay (line 84).
FindItemDelayOver ==
  \E p \in ProcIds, host \in EntryHosts :
     /\ Due(p)
     /\ proc[p].pc = "findItem"
     /\ Apply(findMenuItemButtonResume(Woken(p, host)))
     /\ UNCHANGED envVars

\* activatePrivateSessionMenuItem goes on after the click (line 256).
ClickDelayOver ==
  \E p \in ProcIds, host \in AnyHost :
     /\ Due(p)
     /\ proc[p].pc = "clicked"
     /\ Apply(activateReturns(Woken(p, host)))
     /\ UNCHANGED envVars

\* The close-verification callback of ensureMenuClosed runs (lines 197-204).
MenuCloseTimerFires ==
  \E host \in AnyHost :
     /\ Due("menuClose")
     /\ Apply(menuCloseCallback(Woken("menuClose", host)))
     /\ UNCHANGED envVars

AsyncSteps ==
  \/ IndicatorDelayOver
  \/ CloseDelayOver
  \/ GetElementDelayOver
  \/ RenderDelayOver
  \/ FindItemDelayOver
  \/ ClickDelayOver
  \/ MenuCloseTimerFires
  \/ Tick

\* A fresh invocation of entry in a slot.
NewProc(entry) == [IdleProc EXCEPT !.entry = entry, !.pc = "running"]

Enter(p, entry, host) == [World(p, host) EXCEPT !.me = NewProc(entry)]

(***************************************************************************)
(* The program: the script is loaded into the host application, which      *)
(* sends it focus and visibility events; the user works the menus.         *)
(***************************************************************************)
Init ==
  /\ InitScript
  /\ localStorage \in {Absent, "true", "false"}
  /\ indicator \in BOOLEAN
  /\ mainMenuButton \in BOOLEAN
  /\ menu = NoMenu
  /\ ready \in BOOLEAN
  /\ hidden = FALSE

\* The script's last statement (line 827): privateSessionMain is called.
ScriptLoad ==
  \E host \in AnyHost :
     /\ proc["boot"].pc = "idle"
     /\ Apply(privateSessionMain(Enter("boot", "privateSessionMain", host)))
     /\ UNCHANGED envVars

\* The host platform becomes ready.
HostReady ==
  /\ ~ready
  /\ events < MaxEvents
  /\ ready' = TRUE
  /\ events' = events + 1
  /\ UNCHANGED << persistentModeEnabled, focusEventListener, menuItemAdded,
                  menuOperationInProgress, lastMenuOperationTime,
                  pendingFocusCheck, menuCloseTimer, localStorage,
                  windowFocusListeners, visibilityListeners, now, timers,
                  indicator, mainMenuButton, menu, observer, hidden, proc, hist >>

FocusSlots == << "fc1", "fc2" >>
SlotFree(p) == proc[p].pc \in {"idle", "done"}
\* The slot the next delayed focus check takes.
FreeSlot == FocusSlots[CHOOSE i \in 1..Len(FocusSlots) :
                          /\ SlotFree(FocusSlots[i])
                          /\ \A j \in 1..(i - 1) : ~SlotFree(FocusSlots[j])]

\* n listeners call focusEventListener one after the other; a check that
\* gets scheduled takes slot.
RECURSIVE CallListeners(_, _, _)
CallListeners(w, slot, n) ==
  IF n = 0 THEN w ELSE CallListeners(focusEventListenerCall(w, slot), slot, n - 1)

\* A focus or visibility event is dispatched to n listeners that call
\* focusEventListener.
DispatchFocus(host, n) ==
  LET w == CallListeners(World(FreeSlot, host), FreeSlot, n)
  IN IF w.pendingFocusCheck /\ ~pendingFocusCheck
     THEN Apply([w EXCEPT !.me = [NewProc("focusCheck") EXCEPT !.pc = "timer"]])
     ELSE Apply([w EXCEPT !.id = "none"])

\* The window gets the focus: its focus listeners run (line 365).
WindowFocus ==
  \E host \in AnyHost :
     /\ events < MaxEvents
     /\ \E p \in ProcIds : p \in {"fc1", "fc2"} /\ SlotFree(p)
     /\ DispatchFocus(host, windowFocusListeners)
     /\ events' = events + 1
     /\ UNCHANGED << now, mainMenuButton, ready, hidden, hist >>

\* document.hidden flips: the visibility-change listeners run (lines 366-370).
VisibilityChange ==
  \E host \in AnyHost :
     /\ events < MaxEvents
     /\ \E p \in ProcIds : p \in {"fc1", "fc2"} /\ SlotFree(p)
     /\ hidden' = ~hidden
     /\ IF hidden /\ persistentModeEnabled /\ ~menuOperationInProgress
        THEN DispatchFocus(host, visibilityListeners)
        ELSE DispatchFocus(host, 0)
     /\ events' = events + 1
     /\ UNCHANGED << now, mainMenuButton, ready, hist >>

\* The user clicks the custom item of the open menu (lines 583-588).
UserClicksItem ==
  \E host \in AnyHost :
     /\ events < MaxEvents
     /\ QueryPersistentItem(menu) # Null
     /\ visibilityListeners < MaxVisibilityListeners
     /\ LET w == World("none", host)
            c == togglePersistentMode(w)
            i == QueryPersistentItem(menu)
        IN Apply([c EXCEPT !.menu[i] = ClickedItem(@, c.persistentModeEnabled)])
     /\ events' = events + 1
     /\ UNCHANGED << now, mainMenuButton, ready, hidden, hist >>

\* The user clicks the account-menu button: the host opens or closes the menu.
UserClicksMenuButton ==
  \E host \in OpeningHosts :
     /\ events < MaxEvents
     /\ mainMenuButton
     /\ Apply(HostToggleMenu(World("none", host)))
     /\ events' = events + 1
     /\ UNCHANGED << now, mainMenuButton, ready, hidden, hist >>

Next ==
  \/ ScriptLoad
  \/ HostReady
  \/ PollFires
  \/ SettleDelayOver
  \/ WindowFocus
  \/ VisibilityChange
  \/ FocusCheckFires
  \/ UserClicksItem
  \/ UserClicksMenuButton
  \/ AsyncSteps

Spec == Init /\ [][Next]_vars

(***************************************************************************)
(* Focus harness: the script after a bootstrap that found the session      *)
(* active and enabled persistent mode from the saved flag (after zero or   *)
(* more disable/enable cycles), in a host whose private session has since  *)
(* ended; the host sends focus and visibility events and the user works    *)
(* the menus.                                                              *)
(***************************************************************************)
InitFocus ==
  /\ persistentModeEnabled = TRUE
  /\ focusEventListener = TRUE
  /\ menuItemAdded = FALSE
  /\ menuOperationInProgress = FALSE
  /\ lastMenuOperationTime = 0
  /\ pendingFocusCheck = FALSE
  /\ menuCloseTimer = FALSE
  /\ localStorage = savePersistentModeSetting(TRUE)
  /\ windowFocusListeners = 1
  /\ visibilityListeners \in {1, 2}
  /\ now = StartTime
  /\ timers = << >>
  /\ indicator \in BOOLEAN
  /\ mainMenuButton \in BOOLEAN
  /\ menu = NoMenu
  /\ observer = TRUE
  /\ ready = TRUE
  /\ hidden = TRUE
  /\ proc = [p \in ProcIds |->
               IF p = "boot"
               THEN [NewProc("privateSessionMain") EXCEPT !.pc = "done",
                                                          !.result = "undefined",
                                                          !.loaded = "true"]
               ELSE IdleProc]
  /\ events = 0
  /\ hist = NoHist

\* The callbacks of timers, and the clock.
TimerSteps ==
  \/ FocusCheckFires
  \/ AsyncSteps

NextFocus ==
  \/ WindowFocus
  \/ VisibilityChange
  \/ UserClicksItem
  \/ UserClicksMenuButton
  \/ TimerSteps

SpecFocus == InitFocus /\ [][NextFocus]_vars

\* The focus harness while the mode stays enabled: persistent mode was
\* enabled once (one visibilitychange listener, line 366) and the user does
\* not click the custom item.
InitFocusFair ==
  /\ InitFocus
  /\ visibilityListeners = 1

NextFocusFair ==
  \/ WindowFocus
  \/ VisibilityChange
  \/ UserClicksMenuButton
  \/ TimerSteps

\* A step of TimerSteps can be taken: a callback is due (the guards of
\* FocusCheckFires and of the callbacks of AsyncSteps), or none is due and
\* the clock can advance (the guard of Tick).
TimerStepEnabled ==
  \/ Started /\ now < EndTime /\ NoneDue
  \/ Due("menuClose")
  \/ \E p \in ProcIds :
        /\ Due(p)
        /\ proc[p].pc \in {"timer", "indicator", "closeWait", "getElement",
                            "render", "findItem", "clicked"}

\* Timers fire and time passes: weak fairness of TimerSteps, WF_vars(TimerSteps),
\* written out with its enabling condition: TimerSteps is disabled again and
\* again, or taken again and again.
SpecFocusFair ==
  /\ InitFocusFair
  /\ [][NextFocusFair]_vars
  /\ ([]<>(~TimerStepEnabled) \/ []<><<TimerSteps>>_vars)

(***************************************************************************)
(* Start harness: startPrivateSession called directly, twice, at any two   *)
(* times and with any arguments, in a document the host set up.            *)
(***************************************************************************)
InitStart ==
  /\ InitScript
  /\ localStorage = Absent
  /\ indicator \in BOOLEAN
  /\ mainMenuButton \in BOOLEAN
  /\ menu \in {NoMenu, PartialMenu}
  /\ ready = TRUE
  /\ hidden = FALSE

CallSlots == << "c1", "c2" >>

\* The next unused harness slot is p.
NextCall(p) ==
  \E i \in 1..Len(CallSlots) :
     /\ CallSlots[i] = p
     /\ proc[p].pc = "idle"
     /\ \A j \in 1..(i - 1) : proc[CallSlots[j]].pc # "idle"

CallStartPrivateSession ==
  \E p \in ProcIds, forceOpen \in BOOLEAN, host \in AnyHost :
     /\ NextCall(p)
     /\ Apply(startPrivateSession(Enter(p, "startPrivateSession", host), forceOpen))
     /\ UNCHANGED envVars

NextStart ==
  \/ CallStartPrivateSession
  \/ AsyncSteps

SpecStart == InitStart /\ [][NextStart]_vars

\* The event loop runs a callback that is due, and time passes.
SpecStartFair == SpecStart /\ WF_vars(AsyncSteps)

(***************************************************************************)
(* Locator harness: one call of getElement, isPrivateSessionActive or      *)
(* activatePrivateSessionMenuItem while the host changes the document.     *)
(***************************************************************************)
HostMenus == {NoMenu, ProfileMenu(FALSE), ProfileMenu(TRUE), PartialMenu}

InitLocator ==
  /\ InitScript
  /\ localStorage = Absent
  /\ indicator \in BOOLEAN
  /\ mainMenuButton \in BOOLEAN
  /\ menu \in HostMenus
  /\ ready = TRUE
  /\ hidden = FALSE

CallGetElement ==
  \E selector \in {MAIN_MENU, PROFILE_DROPDOWN_MENU, MENU_ITEM_BUTTON},
     multiple \in BOOLEAN, host \in AnyHost :
     /\ proc["c1"].pc = "idle"
     /\ Apply(getElement(Enter("c1", "getElement", host), selector, multiple))
     /\ UNCHANGED envVars

CallIsPrivateSessionActive ==
  \E host \in AnyHost :
     /\ proc["c1"].pc = "idle"
     /\ Apply(isPrivateSessionActive(Enter("c1", "isPrivateSessionActive", host),
                                     "harness", isActiveReturns))
     /\ UNCHANGED envVars

CallActivate ==
  \E host \in EntryHosts :
     /\ proc["c1"].pc = "idle"
     /\ Apply(activatePrivateSessionMenuItem(
                Enter("c1", "activatePrivateSessionMenuItem", host)))
     /\ UNCHANGED envVars

InFlight == \E p \in ProcIds : proc[p].pc \notin {"idle", "done"}

\* The host adds or removes the account-menu button.
HostChangesButton ==
  /\ InFlight
  /\ events < MaxEvents
  /\ mainMenuButton' = ~mainMenuButton
  /\ events' = events + 1
  /\ UNCHANGED << persistentModeEnabled, focusEventListener, menuItemAdded,
                  menuOperationInProgress, lastMenuOperationTime,
                  pendingFocusCheck, menuCloseTimer, localStorage,
                  windowFocusListeners, visibilityListeners, now, timers,
                  indicator, menu, observer, ready, hidden, proc, hist >>

\* The host shows or hides the private-session indicator.
HostChangesIndicator ==
  /\ InFlight
  /\ events < MaxEvents
  /\ indicator' = ~indicator
  /\ events' = events + 1
  /\ UNCHANGED << persistentModeEnabled, focusEventListener, menuItemAdded,
                  menuOperationInProgress, lastMenuOperationTime,
                  pendingFocusCheck, menuCloseTimer, localStorage,
                  windowFocusListeners, visibilityListeners, now, timers,
                  mainMenuButton, menu, observer, ready, hidden, proc,
                  hist >>

\* The host renders another menu, or none.
HostChangesMenu ==
  /\ InFlight
  /\ events < MaxEvents
  /\ menu' \in HostMenus \ {menu}
  /\ events' = events + 1
  /\ UNCHANGED << persistentModeEnabled, focusEventListener, menuItemAdded,
                  menuOperationInProgress, lastMenuOperationTime,
                  pendingFocusCheck, menuCloseTimer, localStorage,
                  windowFocusListeners, visibilityListeners, now, timers,
                  indicator, mainMenuButton, observer, ready, hidden, proc, hist >>

NextLocator ==
  \/ CallGetElement
  \/ CallIsPrivateSessionActive
  \/ CallActivate
  \/ HostChangesButton
  \/ HostChangesIndicator
  \/ HostChangesMenu
  \/ IndicatorDelayOver
  \/ GetElementDelayOver
  \/ FindItemDelayOver
  \/ ClickDelayOver
  \/ Tick

SpecLocator == InitLocator /\ [][NextLocator]_vars

\* The event loop runs a callback that is due, and time passes.
SpecLocatorFair ==
  /\ SpecLocator
  /\ WF_vars(Tick)
  /\ WF_vars(GetElementDelayOver)

(***************************************************************************)
(* Item-creation harness: one call of addPersistentPrivacyItem on a list   *)
(* (menu) whose entries the host may render or remove while the call       *)
(* retries.                                                                *)
(***************************************************************************)
\* addPersistentPrivacyItem(menuList, retryCount) with its retry timer
\* (lines 496-531): the attempt inserts the item, sets the timer of the next
\* attempt, or gives up.
addPersistentPrivacyItemAttempt(w, retryCount) ==
  LET found == findPrivateSessionItem(w.menu, retryCount)
      w1 == Attempt(w, found.item # Null)
  IN IF found.retry
     THEN Wait(Delay(w1), RETRY_DELAY, "itemRetry", retryCount + 1)
     ELSE Done([w1 EXCEPT !.menu = addPersistentPrivacyItem(w.menu, retryCount,
                                                            w.persistentModeEnabled)],
               IF found.item = Null THEN "null" ELSE "menuItem")

CallAddPersistentPrivacyItem ==
  \E host \in AnyHost :
     /\ proc["c1"].pc = "idle"
     /\ menu # NoMenu
     /\ Apply(addPersistentPrivacyItemAttempt(
                Enter("c1", "addPersistentPrivacyItem", host), 0))
     /\ UNCHANGED envVars

\* The retry timer fires (line 516).
ItemRetryDelayOver ==
  \E p \in ProcIds, host \in AnyHost :
     /\ Due(p)
     /\ proc[p].pc = "itemRetry"
     /\ Apply(addPersistentPrivacyItemAttempt(Woken(p, host), proc[p].retry))
     /\ UNCHANGED envVars

NextRetry ==
  \/ CallAddPersistentPrivacyItem
  \/ ItemRetryDelayOver
  \/ HostChangesMenu
  \/ Tick

SpecRetry == InitLocator /\ [][NextRetry]_vars

(***************************************************************************)
(* Observer harness: the script is initialized and idle; the host adds and *)
(* removes menu lists and the observer is handed the records in batches of *)
(* up to MaxBatch changes; the user clicks the custom item.                *)
(***************************************************************************)
\* The lists the host may render: the account menu, the account menu before
\* its private-session entry is rendered, a context menu, and a menu whose
\* entry has another text than the private-session label.
HostLists ==
  { ProfileMenu(indicator), PartialMenu, ContextMenu,
    << HostItem("Private session ", TRUE, FALSE), HostItem("Settings", TRUE, FALSE) >> }

\* A change is the list the host adds, or NoMenu when it removes the open one.
Batches == UNION { [1..n -> HostLists \cup {NoMenu}] : n \in 1..MaxBatch }

\* The records of lists that are no longer in the document.
Detached(mutations) ==
  [k \in 1..Len(mutations) |->
     [addedNodes |-> [j \in 1..Len(mutations[k].addedNodes) |->
                        [mutations[k].addedNodes[j] EXCEPT !.live = FALSE]],
      removedNodes |-> mutations[k].removedNodes]]

HostShows(w, list) ==
  [w EXCEPT !.menu = list,
            !.mutations = Append(@, AddedRecord(MenuNode(list, TRUE)))]

HostRemoves(w) ==
  [w EXCEPT !.menu = NoMenu,
            !.mutations = Append(Detached(@), RemovedRecord(MenuNode(w.menu, FALSE)))]

\* The host adds a list only when none is open and removes only an open one.
RECURSIVE Feasible(_, _)
Feasible(open, changes) ==
  IF changes = << >> THEN TRUE
  ELSE /\ (Head(changes) = NoMenu) = open
       /\ Feasible(~open, Tail(changes))

RECURSIVE HostRuns(_, _)
HostRuns(w, changes) ==
  IF changes = << >> THEN w
  ELSE HostRuns(IF Head(changes) = NoMenu THEN HostRemoves(w)
                ELSE HostShows(w, Head(changes)),
                Tail(changes))

InitObserver ==
  /\ persistentModeEnabled \in BOOLEAN
  /\ focusEventListener = persistentModeEnabled
  /\ windowFocusListeners = (IF persistentModeEnabled THEN 1 ELSE 0)
  /\ visibilityListeners = (IF persistentModeEnabled THEN 1 ELSE 0)
  /\ localStorage = savePersistentModeSetting(persistentModeEnabled)
  /\ indicator \in BOOLEAN
  /\ menu \in {NoMenu, ensurePersistentMenuItem(ProfileMenu(indicator), persistentModeEnabled)}
  /\ menuItemAdded = (menu # NoMenu)
  /\ lastMenuOperationTime = (IF menu # NoMenu THEN StartTime ELSE 0)
  /\ menuOperationInProgress = FALSE
  /\ pendingFocusCheck = FALSE
  /\ menuCloseTimer = FALSE
  /\ now = StartTime
  /\ timers = << >>
  /\ mainMenuButton = TRUE
  /\ observer = TRUE
  /\ ready = TRUE
  /\ hidden = FALSE
  /\ proc = [p \in ProcIds |->
               IF p = "boot"
               THEN [IdleProc EXCEPT !.entry = "privateSessionMain", !.pc = "done",
                                     !.loaded = BooleanToString(persistentModeEnabled)]
               ELSE IdleProc]
  /\ events = 0
  /\ hist = NoHist

\* The host changes the document and the observer is handed the records.
\* hist keeps the changes of the last batch and the number of events before it.
MutationBatch ==
  \E host \in AnyHost, changes \in Batches :
     /\ events < MaxEvents
     /\ Feasible(menu # NoMenu, changes)
     /\ Apply(HostRuns(World("none", host), changes))
     /\ events' = events + 1
     /\ hist' = [ops |-> changes, before |-> << events >>]
     /\ UNCHANGED << now, mainMenuButton, ready, hidden >>

\* The custom <li> as a removed node: it matches no menu selector, and
\* querySelector("#ps-persistent-item") looks at its descendants only.
ItemNode ==
  [nodeType |-> 1, hasMenu |-> FALSE, isMenu |-> FALSE, hasItem |-> FALSE,
   list |-> NoMenu, live |-> FALSE]

\* The host removes the custom item from the open menu (a re-render of the
\* list) and the observer is handed the record.
HostRemovesItem ==
  \E host \in AnyHost :
     /\ events < MaxEvents
     /\ QueryPersistentItem(menu) # Null
     /\ LET i == QueryPersistentItem(menu)
            w == World("none", host)
        IN Apply([w EXCEPT !.menu = SubSeq(menu, 1, i - 1) \o SubSeq(menu, i + 1, Len(menu)),
                           !.mutations = << RemovedRecord(ItemNode) >>])
     /\ events' = events + 1
     /\ hist' = [ops |-> << >>, before |-> << events >>]
     /\ UNCHANGED << now, mainMenuButton, ready, hidden >>

\* Time passes between two events.
TickBetweenEvents ==
  /\ now < StartTime + events * Quantum
  /\ Tick

NextObserver ==
  \/ MutationBatch
  \/ HostRemovesItem
  \/ UserClicksItem
  \/ TickBetweenEvents

SpecObserver == InitObserver /\ [][NextObserver]_vars

(***************************************************************************)
(* Properties checked under SpecUnit.                                      *)
(***************************************************************************)
LastOp == IF hist.ops = << >> THEN "none" ELSE hist.ops[Len(hist.ops)]
\* The controller state the last call started from.
LastBefore == hist.before[Len(hist.before)]

PersistentItems(menuList) ==
  {i \in 1..Len(menuList) : menuList[i].id = PS_PERSISTENT_ITEM_ID}

\* C3: saving the flag and loading it again yields the flag that was saved;
\* loading when the key is absent yields false; loading yields true exactly
\* when the stored value is the string "true".
PersistenceRoundTrip ==
  /\ hist.ops = << "save", "load" >>
       => persistentModeEnabled = hist.before[1].persistentModeEnabled
  /\ LastOp = "load"
       => /\ LastBefore.localStorage = Absent => ~persistentModeEnabled
          /\ persistentModeEnabled <=> LastBefore.localStorage = "true"

\* C3 witness: the flag true was saved and then loaded back as true.
PersistenceRoundTripWitness ==
  /\ hist.ops = << "save", "load" >>
  /\ hist.before[1].persistentModeEnabled
  /\ persistentModeEnabled

\* C4 (as claimed): two consecutive toggles restore the flag and leave the
\* same registered listeners (window focus and document visibility-change)
\* as before them.
ToggleSymmetry ==
  hist.ops = << "toggle", "toggle" >>
    => /\ persistentModeEnabled = hist.before[1].persistentModeEnabled
       /\ focusEventListener = hist.before[1].focusEventListener
       /\ windowFocusListeners = hist.before[1].windowFocusListeners
       /\ visibilityListeners = hist.before[1].visibilityListeners

\* C7: a list never holds two custom items, and after ensurePersistentMenuItem
\* on a list with a "Private session" item the list holds exactly one custom
\* item, right after the private-session <li>.
InjectionWithoutDuplication ==
  /\ Cardinality(PersistentItems(menu)) <= 1
  /\ (LastOp = "ensure" /\ findItemByText(menu, PS_PRIVATE_SESSION_LABEL_TEXT) # Null)
       => PersistentItems(menu) = {findItemByText(menu, PS_PRIVATE_SESSION_LABEL_TEXT) + 1}

\* C7 witness: ensurePersistentMenuItem ran twice in a row on a list that
\* holds the custom item.
InjectionWithoutDuplicationWitness ==
  /\ hist.ops = << "ensure", "ensure" >>
  /\ QueryPersistentItem(menu) # Null

\* C8 (as claimed): after ensurePersistentMenuItem on a list that holds the
\* custom item, the toggle of the item shows the current persistentModeEnabled.
InjectionRefresh ==
  (LastOp = "ensure" /\ QueryPersistentItem(menu) # Null)
    => menu[QueryPersistentItem(menu)].toggle = createToggleElement(persistentModeEnabled)

(***************************************************************************)
(* Properties checked under Spec.                                          *)
(***************************************************************************)
\* Invocation p has run prepareMenuOperation and not yet cleanupMenuOperation.
InOperation(p) == proc[p].tookLock /\ ~proc[p].cleaned /\ proc[p].pc # "done"

\* C1 (as claimed): at most one invocation of startPrivateSession is between
\* prepareMenuOperation and cleanupMenuOperation at any time.
MutualExclusion == Cardinality({p \in ProcIds : InOperation(p)}) <= 1

(***************************************************************************)
(* Properties checked under SpecStart.                                     *)
(***************************************************************************)
StartCall(p) == proc[p].entry = "startPrivateSession"

\* C2 (as claimed): a call of startPrivateSession that begins less than
\* MENU_OPERATION_COOLDOWN after the call before it returns false and neither
\* queries nor clicks anything.
Cooldown ==
  (StartCall("c2") /\ proc["c2"].began - proc["c1"].began < MENU_OPERATION_COOLDOWN)
    => /\ proc["c2"].pc = "done"
       /\ proc["c2"].result = "false"
       /\ ~proc["c2"].queried
       /\ proc["c2"].clicks = 0

\* Invocation p of startPrivateSession catches an error in this step.
Catches(p) ==
  /\ proc'[p].entry = "startPrivateSession"
  /\ proc[p].threw = "none"
  /\ proc'[p].threw # "none"

\* C9: startPrivateSession throws nothing at its caller, and in the step in
\* which it catches an error (menu button or menu item not found) it tries to
\* close the menu, clears menuOperationInProgress and returns false.
FailureSemantics ==
  /\ [](\A p \in ProcIds : StartCall(p) => proc[p].result # "throws")
  /\ [][\A p \in ProcIds :
          Catches(p)
            => /\ proc'[p].pc = "done"
               /\ proc'[p].result = "false"
               /\ proc'[p].cleaned
               /\ ~menuOperationInProgress'
               /\ (menu # NoMenu /\ mainMenuButton)
                    => /\ proc'[p].clicks = proc[p].clicks + 1
                       /\ menuCloseTimer']_vars

\* C9 witness: a call opened a menu without the private-session item, failed
\* to find the item, and returned false with the lock released.
FailureSemanticsWitness ==
  \E p \in ProcIds :
     /\ StartCall(p)
     /\ proc[p].pc = "done"
     /\ proc[p].threw = PS_PRIVATE_SESSION_LABEL_TEXT
     /\ proc[p].result = "false"
     /\ proc[p].clicks = 2
     /\ ~menuOperationInProgress

\* Invocation p of startPrivateSession looks for the indicator in this step.
LooksForIndicator(p) ==
  /\ proc'[p].entry = "startPrivateSession"
  /\ proc[p].pc \in {"idle", "indicator"}
  /\ proc'[p].log # proc[p].log

\* C10: a call startPrivateSession(false) changes neither
\* menuOperationInProgress, lastMenuOperationTime, the close timer nor the
\* menu, clicks nothing, and returns false when the session is not active;
\* a call that finds the session active returns true at once, without a click
\* and without the lock, whatever forceOpen is.
NoSideEffects ==
  [][\A p \in ProcIds :
       /\ (proc'[p] # proc[p] /\ proc'[p].entry = "startPrivateSession"
              /\ ~proc'[p].forceOpen)
            => /\ UNCHANGED << menuOperationInProgress, lastMenuOperationTime,
                              menuCloseTimer, menu >>
               /\ proc'[p].clicks = 0
               /\ ~proc'[p].tookLock
               /\ (LooksForIndicator(p) /\ ~indicator /\ proc'[p].pc # "indicator")
                    => (proc'[p].pc = "done" /\ proc'[p].result = "false")
               /\ (proc[p].pc = "indicator" /\ ~LooksForIndicator(p))
                    => (proc'[p].pc = "done" /\ proc'[p].result = "false")
       /\ (LooksForIndicator(p) /\ indicator)
            => /\ proc'[p].pc = "done"
               /\ proc'[p].result = "true"
               /\ proc'[p].clicks = 0
               /\ ~proc'[p].tookLock
               /\ UNCHANGED << menuOperationInProgress, lastMenuOperationTime,
                              menuCloseTimer, menu >>]_vars

\* C10 witness: a call with forceOpen = false passed the gate, found no
\* indicator in PS_INDICATOR_RETRIES attempts and returned false.
NoSideEffectsWitness ==
  \E p \in ProcIds :
     /\ StartCall(p)
     /\ ~proc[p].forceOpen
     /\ proc[p].pc = "done"
     /\ proc[p].log = << FALSE, FALSE >>
     /\ proc[p].result = "false"

(***************************************************************************)
(* Properties checked under SpecLocator and SpecLocatorFair.               *)
(***************************************************************************)
GetElementCall == proc["c1"].entry = "getElement"

\* The attempts of the getElement call so far: none after a match, at most
\* PS_RETRY_LIMIT, a PS_DELAY_MS wait after each one without a match, the
\* match returned at the attempt that found it and null after PS_RETRY_LIMIT
\* attempts without one.
LocatorAttempts ==
  GetElementCall =>
    LET me == proc["c1"]
        n == Len(me.log)
    IN /\ n \in 1..PS_RETRY_LIMIT
       /\ \A k \in 1..(n - 1) : ~me.log[k]
       /\ me.pc \in {"getElement", "done"}
       /\ me.pc = "getElement"
            => /\ ~me.log[n]
               /\ me.waits = n
               /\ \E i \in 1..Len(timers) :
                     /\ timers[i].who = "c1"
                     /\ timers[i].at = StartTime + n * PS_DELAY_MS
       /\ me.pc = "done"
            => /\ me.result = (IF ~me.log[n] THEN "null"
                               ELSE IF me.multiple THEN "elements" ELSE "element")
               /\ me.log[n] => me.waits = n - 1
               /\ ~me.log[n] => (n = PS_RETRY_LIMIT /\ me.waits = PS_RETRY_LIMIT)

\* C5: getElement returns the match at the first attempt that finds one and
\* makes no attempt after it; it returns null only after PS_RETRY_LIMIT
\* attempts, each followed by a wait of PS_DELAY_MS; and every call returns.
Locator ==
  /\ []LocatorAttempts
  /\ (GetElementCall ~> proc["c1"].pc = "done")

\* C5 witness: the selector matched at the second attempt and the call
\* returned the element after one wait.
LocatorWitness ==
  /\ GetElementCall
  /\ proc["c1"].pc = "done"
  /\ proc["c1"].log = << FALSE, TRUE >>
  /\ proc["c1"].result = "element"
  /\ proc["c1"].waits = 1

\* The menu entry findMenuItemButton finds in the document as it is.
PrivateSessionButton ==
  searchForMenuItemButton([menu |-> menu], PS_PRIVATE_SESSION_LABEL_TEXT)

ActivateCall == proc["c1"].entry = "activatePrivateSessionMenuItem"

\* C6: a step of activatePrivateSessionMenuItem clicks (once) exactly when it
\* finds the private-session item and the item has no check mark; on a
\* checked item it clicks nothing, leaves the menu as it is and returns true.
ActivateIdempotence ==
  [][ActivateCall' =>
       LET me == proc["c1"]
           looks == proc'["c1"].log # me.log
           i == PrivateSessionButton
           clicks == IF looks /\ i # Null THEN (IF menu[i].svg THEN 0 ELSE 1) ELSE 0
       IN /\ proc'["c1"].clicks = (IF ActivateCall THEN me.clicks ELSE 0) + clicks
          /\ (looks /\ i # Null /\ clicks = 0)
               => /\ proc'["c1"].pc = "done"
                  /\ proc'["c1"].result = "true"
                  /\ menu' = menu
                  /\ indicator' = indicator]_vars

\* C6 witness: the call found the item checked and returned true without a
\* click, and the item is still checked.
ActivateIdempotenceWitness ==
  /\ ActivateCall
  /\ proc["c1"].pc = "done"
  /\ proc["c1"].result = "true"
  /\ proc["c1"].clicks = 0
  /\ PrivateSessionButton # Null
  /\ menu[PrivateSessionButton].svg

(***************************************************************************)
(* Properties checked under SpecFocus and SpecFocusFair.                   *)
(***************************************************************************)
FocusChecks == {"fc1", "fc2"}

\* Nothing is scheduled or in flight: without a new event the script does
\* nothing more.
Quiescent ==
  /\ ~pendingFocusCheck
  /\ \A q \in ProcIds : proc[q].pc \in {"idle", "done"}

\* C11 (as claimed): while persistent mode is enabled, a focus or visibility
\* event that finds the session not active is followed by an activation
\* attempt that clicks the private-session item, so that once the checks the
\* events scheduled have run the session is active, unless the menu button
\* or the item was not found.
ReassertOnFocus ==
  (/\ Quiescent
   /\ persistentModeEnabled
   /\ \E p \in FocusChecks : proc[p].entry = "focusCheck"
   /\ \A q \in ProcIds : proc[q].threw = "none")
    => indicator

\* canPerformMenuOperation in the current state.
GateOpen ==
  canPerformMenuOperation([menuOperationInProgress |-> menuOperationInProgress,
                           lastMenuOperationTime |-> lastMenuOperationTime])

\* The timer of the delayed check in slot p fires in this step.
Fires(p) == proc[p].pc = "timer" /\ proc'[p].pc # "timer"

\* The activity check that `caller` awaits in slot p returns false in this
\* step: its PS_INDICATOR_RETRIES attempts and delays are over.
ReturnsInactive(p, caller) ==
  /\ proc[p].entry = "focusCheck"
  /\ proc[p].pc = "indicator"
  /\ proc[p].caller = caller
  /\ proc[p].retry + 1 = PS_INDICATOR_RETRIES
  /\ proc'[p] # proc[p]

\* The window gets the focus in this step (the step counts as an event and
\* neither flips document.hidden nor is a click on the menu button).
FocusEvent == events' = events + 1 /\ hidden' = hidden /\ menu' = menu

\* document.hidden goes from true to false in this step.
TurnsVisible == events' = events + 1 /\ hidden /\ ~hidden'

\* This step schedules one delayed check: pendingFocusCheck gets set and a
\* free slot waits for a timer set FOCUS_CHECK_DELAY_MS from now.
SchedulesCheck ==
  /\ ~pendingFocusCheck
  /\ pendingFocusCheck'
  /\ Len(timers') = Len(timers) + 1
  /\ \E p \in FocusChecks, i \in 1..Len(timers') :
        /\ proc[p].pc # "timer"
        /\ proc'[p].entry = "focusCheck"
        /\ proc'[p].pc = "timer"
        /\ timers'[i] = [at |-> now + FOCUS_CHECK_DELAY_MS, who |-> p]
        /\ \A q \in ProcIds \ {p} : proc'[q] = proc[q]

\* This step schedules nothing and starts nothing.
SchedulesNothing == UNCHANGED << pendingFocusCheck, timers, proc >>

\* The delayed check in slot p ends in this step.
Ends(p) ==
  /\ proc[p].entry = "focusCheck"
  /\ proc[p].pc \notin {"timer", "done"}
  /\ proc'[p].pc = "done"

\* The longest time from the event to the end of its delayed check: the
\* timer, the two activity checks, and the menu operation (closing the menu,
\* the menu button, the rendering, the retries for the item, the click).
FocusCheckSpan ==
  FOCUS_CHECK_DELAY_MS + 2 * PS_INDICATOR_RETRIES * PS_DELAY_MS
    + MENU_OPEN_SETTLE_MS + 2 * PS_DELAY_MS + PS_RETRY_LIMIT * PS_DELAY_MS

\* C11 (amended): while persistent mode is enabled,
\*  (a) a window focus event that finds no check pending schedules one
\*      delayed check FOCUS_CHECK_DELAY_MS later; a visibility change to
\*      visible does so when no menu operation is in progress and schedules
\*      nothing when one is; an event that finds a check pending schedules
\*      nothing;
\*  (b) the check runs the activity check when at its firing the mode is
\*      enabled, no menu operation is in progress and no menu is open; it
\*      calls startPrivateSession(true) when that check finds the session not
\*      active, the mode is still enabled and the gate is open; the call
\*      takes the lock and starts opening the menu when its own activity
\*      check finds the session not active;
\*  (c) a check that took the lock and ends without an error has clicked the
\*      menu button and the private-session item and leaves the session
\*      active; and, timers firing, every scheduled check ends, having either
\*      not taken the lock, or failed with an error, or clicked the item with
\*      the session active.
ReassertOnFocusGuarded ==
  /\ [][/\ (FocusEvent /\ windowFocusListeners > 0 /\ ~pendingFocusCheck)
             => SchedulesCheck
        /\ (TurnsVisible /\ visibilityListeners > 0 /\ persistentModeEnabled
               /\ ~menuOperationInProgress /\ ~pendingFocusCheck)
             => SchedulesCheck
        /\ (TurnsVisible /\ menuOperationInProgress) => SchedulesNothing
        /\ ((FocusEvent \/ TurnsVisible) /\ pendingFocusCheck) => SchedulesNothing
        /\ \A p \in FocusChecks :
             /\ (Fires(p) /\ persistentModeEnabled /\ ~menuOperationInProgress
                    /\ menu = NoMenu)
                  => /\ proc'[p].caller = "focus"
                     /\ proc'[p].log = << indicator >>
             /\ (ReturnsInactive(p, "focus") /\ persistentModeEnabled /\ GateOpen)
                  => /\ proc'[p].caller = "start"
                     /\ proc'[p].forceOpen
                     /\ proc'[p].began = now
                     /\ proc'[p].log = << indicator >>
                     /\ proc'[p].pc = (IF indicator THEN "done" ELSE "indicator")
             /\ ReturnsInactive(p, "start")
                  => /\ proc'[p].tookLock
                     /\ proc'[p].pc = "closeWait"
                     /\ menuOperationInProgress'
                     /\ lastMenuOperationTime' = now
             /\ (Ends(p) /\ proc'[p].tookLock /\ proc'[p].threw = "none")
                  => /\ proc'[p].clicks >= 2
                     /\ proc'[p].result = "true"
                     /\ indicator']_vars
  /\ \A p \in FocusChecks :
        (proc[p].pc = "timer" /\ now + FocusCheckSpan <= EndTime)
          ~> (/\ proc[p].pc = "done"
              /\ \/ ~proc[p].tookLock
                 \/ proc[p].threw # "none"
                 \/ proc[p].clicks >= 2 /\ indicator)

\* C11 witness: a delayed focus check found the session not active, opened
\* the menu and clicked the private-session item, and the session is active.
ReassertOnFocusGuardedWitness ==
  \E p \in FocusChecks :
     /\ proc[p].entry = "focusCheck"
     /\ proc[p].pc = "done"
     /\ proc[p].tookLock
     /\ proc[p].result = "true"
     /\ proc[p].clicks = 2
     /\ indicator
     /\ persistentModeEnabled

\* The delayed check in slot p calls startPrivateSession in this step.
CallsStart(p) ==
  /\ proc'[p].entry = "focusCheck"
  /\ proc[p].began = 0
  /\ proc'[p].began # 0

\* C12: a delayed focus check calls startPrivateSession(true) only when its
\* activity check has returned false and persistent mode is enabled, and it
\* gets to the activity check only when at the firing of its timer
\* persistent mode was enabled, no menu operation was in progress and no
\* menu was open; a check that does not call startPrivateSession clicks
\* nothing and changes neither the lock nor lastMenuOperationTime.
FocusCheckGuard ==
  [][\A p \in FocusChecks :
       /\ (Fires(p) /\ ~(persistentModeEnabled /\ ~menuOperationInProgress
                            /\ menu = NoMenu))
            => /\ proc'[p].pc = "done"
               /\ proc'[p].caller = "none"
       /\ (proc'[p].entry = "focusCheck" /\ proc'[p].caller = "focus"
              /\ proc[p].caller # "focus")
            => (Fires(p) /\ persistentModeEnabled /\ ~menuOperationInProgress
                  /\ menu = NoMenu)
       /\ CallsStart(p)
            => /\ ReturnsInactive(p, "focus")
               /\ persistentModeEnabled
               /\ proc'[p].forceOpen
       /\ (proc'[p] # proc[p] /\ proc'[p].entry = "focusCheck"
              /\ proc'[p].caller # "start")
            => /\ proc'[p].clicks = 0
               /\ ~proc'[p].tookLock
               /\ UNCHANGED << menuOperationInProgress, lastMenuOperationTime,
                              menuCloseTimer, menu >>]_vars

\* C12 witness: a delayed check fired while a menu was open and ended
\* without an activity check, a call of startPrivateSession or a click.
FocusCheckGuardWitness ==
  \E p \in FocusChecks :
     /\ proc[p].entry = "focusCheck"
     /\ proc[p].pc = "done"
     /\ proc[p].caller = "none"
     /\ proc[p].log = << >>
     /\ proc[p].clicks = 0
     /\ menu # NoMenu
     /\ persistentModeEnabled

\* The timers of delayed focus checks that have not fired yet.
PendingCheckTimers ==
  {i \in 1..Len(timers) :
     timers[i].who \in FocusChecks /\ proc[timers[i].who].pc = "timer"}

\* C13: at most one delayed focus-check timer is pending, and one is pending
\* exactly when pendingFocusCheck is set, however many visibility-change
\* listeners are registered; an event that arrives while a check is pending
\* schedules nothing; the timer's callback clears pendingFocusCheck.
Debounce ==
  /\ [](/\ Cardinality(PendingCheckTimers) <= 1
        /\ pendingFocusCheck <=> PendingCheckTimers # {})
  /\ [][/\ (events' # events /\ pendingFocusCheck)
             => (timers' = timers /\ pendingFocusCheck')
        /\ \A p \in FocusChecks : Fires(p) => ~pendingFocusCheck']_vars

\* C13 witness: a visibility change to visible was handled by two registered
\* listeners and one check is pending.
DebounceWitness ==
  /\ visibilityListeners = 2
  /\ events = 1
  /\ ~hidden
  /\ pendingFocusCheck
  /\ Cardinality(PendingCheckTimers) = 1

(***************************************************************************)
(* Further properties checked under SpecUnit.                              *)
(***************************************************************************)
\* C14: after enablePersistentMode, disablePersistentMode or
\* togglePersistentMode (called directly or by a click on the custom item)
\* the stored value is "true" when persistentModeEnabled is true and "false"
\* when it is false, and every value the script stores is one of the two.
PersistedFlagConsistency ==
  /\ [](LastOp \in {"enable", "disable", "toggle", "click"}
          => localStorage = (IF persistentModeEnabled THEN "true" ELSE "false"))
  /\ [][localStorage' # localStorage => localStorage' \in {"true", "false"}]_vars

\* C14 witness: togglePersistentMode turned the mode on over a stored value
\* that was not "true", and the stored value is now "true".
PersistedFlagConsistencyWitness ==
  /\ LastOp = "toggle"
  /\ LastBefore.localStorage \notin {"true", "false"}
  /\ persistentModeEnabled
  /\ localStorage = "true"

(***************************************************************************)
(* Further properties checked under Spec.                                  *)
(***************************************************************************)
\* C15: while persistent mode is disabled, focusEventListener is null and no
\* focus listener is registered on the window; an event that leaves the mode
\* disabled schedules no delayed check; and no delayed check, pending or in
\* flight, calls startPrivateSession.
DisableTakesEffect ==
  /\ [](~persistentModeEnabled
          => (~focusEventListener /\ windowFocusListeners = 0))
  /\ [][~persistentModeEnabled
          => /\ (events' # events /\ ~persistentModeEnabled')
                  => (timers' = timers /\ pendingFocusCheck' = pendingFocusCheck)
             /\ \A p \in FocusChecks :
                  (proc'[p].entry = "focusCheck" /\ proc'[p] # proc[p])
                    => (proc'[p].began = proc[p].began
                          /\ proc'[p].caller = proc[p].caller)]_vars

\* C15 witness: the mode was disabled while a delayed check awaited its
\* activity check; the check found the session not active and ended without
\* calling startPrivateSession.
DisableTakesEffectWitness ==
  \E p \in FocusChecks :
     /\ ~persistentModeEnabled
     /\ windowFocusListeners = 0
     /\ visibilityListeners > 0
     /\ proc[p].entry = "focusCheck"
     /\ proc[p].pc = "done"
     /\ proc[p].caller = "focus"
     /\ proc[p].log = << FALSE, FALSE >>
     /\ proc[p].began = 0

(***************************************************************************)
(* Properties checked under SpecStartFair.                                 *)
(***************************************************************************)
\* The longest time from prepareMenuOperation to cleanupMenuOperation.
OperationSpan ==
  MENU_OPEN_SETTLE_MS + 2 * PS_DELAY_MS + PS_RETRY_LIMIT * PS_DELAY_MS

\* C16: the invocation that took the lock clears it in the step in which it
\* returns, with or without an error; a lock taken early enough for the
\* operation to end before EndTime is cleared again; and a call that the
\* gate rejects returns false and leaves menuOperationInProgress and
\* lastMenuOperationTime as they are.
LockRelease ==
  /\ [][\A p \in ProcIds :
          /\ (proc'[p].tookLock /\ proc[p].pc # "done" /\ proc'[p].pc = "done")
               => ~menuOperationInProgress'
          /\ (proc[p].pc = "idle" /\ proc'[p].entry = "startPrivateSession"
                 /\ ~GateOpen)
               => /\ proc'[p].pc = "done"
                  /\ proc'[p].result = "false"
                  /\ UNCHANGED << menuOperationInProgress,
                                 lastMenuOperationTime >>]_vars
  /\ ((menuOperationInProgress /\ now + OperationSpan <= EndTime)
        ~> ~menuOperationInProgress)

\* C16 witness: one call took the lock, activated the session and released
\* the lock, and another call was rejected by the gate.
LockReleaseWitness ==
  \E p, q \in ProcIds :
     /\ StartCall(p)
     /\ proc[p].pc = "done"
     /\ proc[p].tookLock
     /\ proc[p].result = "true"
     /\ StartCall(q)
     /\ proc[q].pc = "done"
     /\ proc[q].log = << >>
     /\ proc[q].result = "false"
     /\ ~menuOperationInProgress

(***************************************************************************)
(* Bootstrap (checked under Spec).                                         *)
(***************************************************************************)
\* initializePrivateSession is entered in this step.
Initializes ==
  /\ proc["boot"].pc \in {"idle", "poll"}
  /\ proc'["boot"].pc \notin {"idle", "poll"}

\* The steps of the bootstrap, in their order; installs: whether the focus
\* and visibility listeners are installed when the first activity check is
\* over.
BootstrapSteps(installs) ==
  LET boot == proc["boot"]
      after == proc'["boot"]
  IN /\ (~ready /\ after # boot) => after.pc = "poll"
     /\ boot.pc \notin {"idle", "poll"} => after.pc \notin {"idle", "poll"}
     /\ (observer' /\ ~observer) => Initializes
     /\ Initializes
          => /\ ready
             /\ ~observer /\ observer'
             /\ after.loaded = (IF localStorage = "true" THEN "true" ELSE "false")
             /\ persistentModeEnabled' = (localStorage = "true")
             /\ after.caller = "bootFirst"
             /\ after.log = << indicator >>
             /\ after.pc = (IF indicator THEN "settle" ELSE "indicator")
     /\ (after # boot /\ after.caller = "bootFirst" /\ after.pc = "indicator")
          => UNCHANGED << focusEventListener, windowFocusListeners,
                         visibilityListeners >>
     /\ (boot.pc # "settle" /\ after.pc = "settle")
          => /\ after.caller = "bootFirst"
             /\ focusEventListener' <=> installs
             /\ \E i \in 1..Len(timers') :
                   timers'[i] = [at |-> now + INIT_SETTLE_MS, who |-> "boot"]
     /\ (boot.pc = "settle" /\ after # boot)
          => /\ after.caller = "bootSecond"
             /\ after.log = << indicator >>
             /\ after.pc = (IF indicator THEN "done" ELSE "indicator")
     /\ (boot.began = 0 /\ after.began # 0)
          => /\ boot.caller = "bootSecond"
             /\ boot.pc = "indicator"
             /\ boot.retry + 1 = PS_INDICATOR_RETRIES
     /\ (boot.caller = "bootSecond" /\ boot.pc = "indicator"
            /\ boot.retry + 1 = PS_INDICATOR_RETRIES /\ after # boot)
          => /\ after.forceOpen
             /\ after.began = now
             /\ after.caller = (IF GateOpen THEN "start" ELSE "bootSecond")
     /\ boot.began # 0 => after.began = boot.began

\* C17 (as claimed): initializePrivateSession runs once, after the readiness
\* predicate holds; it loads the flag, installs the observer, checks the
\* activity, installs the listeners exactly when the loaded flag is true,
\* waits INIT_SETTLE_MS, checks the activity again and calls
\* startPrivateSession(true) once when the session is not active, whatever
\* the flag.
BootstrapOrdering ==
  [][BootstrapSteps(proc'["boot"].loaded = "true")]_vars

\* C17 (amended): the same, with the listeners installed exactly when
\* persistentModeEnabled is true at the end of the first activity check.
BootstrapOrderingCurrentFlag ==
  [][BootstrapSteps(persistentModeEnabled')]_vars

\* C17 witness: the bootstrap loaded the flag false, installed no listeners,
\* found the session not active and activated it.
BootstrapOrderingCurrentFlagWitness ==
  /\ proc["boot"].pc = "done"
  /\ proc["boot"].loaded = "false"
  /\ proc["boot"].caller = "start"
  /\ proc["boot"].tookLock
  /\ proc["boot"].result = "true"
  /\ ~persistentModeEnabled
  /\ visibilityListeners = 0
  /\ indicator

(***************************************************************************)
(* Observer (checked under SpecObserver).                                  *)
(***************************************************************************)
\* This step hands the observer a batch that reports only the addition of
\* one list, hist'.ops[1].
AddsOneMenu == menu = NoMenu /\ menu' # NoMenu /\ Len(hist'.ops) = 1

\* C18: the mutation handler inserts the custom item and sets menuItemAdded
\* and lastMenuOperationTime only for an added menu with a span whose text
\* is exactly the private-session label; for an added menu with only a
\* "Settings" span or neither span it inserts nothing and leaves
\* menuItemAdded and lastMenuOperationTime as they are.
InjectionOnlyPrivateSessionMenus ==
  [][/\ AddsOneMenu
          => LET list == hist'.ops[1]
             IN IF HasSpan(list, PS_PRIVATE_SESSION_LABEL_TEXT)
                THEN ~menuItemAdded
                       => /\ QueryPersistentItem(menu') # Null
                          /\ menuItemAdded'
                          /\ lastMenuOperationTime' = now
                ELSE /\ menu' = list
                     /\ UNCHANGED << menuItemAdded, lastMenuOperationTime >>
     /\ ((~menuItemAdded /\ menuItemAdded') \/ lastMenuOperationTime' # lastMenuOperationTime)
          => \E k \in 1..Len(hist'.ops) :
                HasSpan(hist'.ops[k], PS_PRIVATE_SESSION_LABEL_TEXT)
     /\ QueryPersistentItem(menu') # Null
          => HasSpan(menu', PS_PRIVATE_SESSION_LABEL_TEXT)]_vars

\* C18 witness: the host showed the account menu without its private-session
\* entry; nothing was inserted, menuItemAdded and lastMenuOperationTime kept
\* their values.
InjectionOnlyPrivateSessionMenusWitness ==
  /\ hist.ops = << PartialMenu >>
  /\ menu = PartialMenu
  /\ ~menuItemAdded
  /\ lastMenuOperationTime = 0
  /\ now > StartTime

\* C19: whatever batches the observer is handed, a menu in the document that
\* has a private-session item has the custom item once the batch that
\* reports its addition is handled.
EveryOpeningGetsItem ==
  (menu # NoMenu /\ findItemByText(menu, PS_PRIVATE_SESSION_LABEL_TEXT) # Null)
     => QueryPersistentItem(menu) # Null

\* This step is a click on the custom item: an event that is no batch.
ClicksItem ==
  /\ events' = events + 1
  /\ hist' = hist
  /\ QueryPersistentItem(menu) # Null

\* C20: whenever the document holds the custom item, its toggle shows the
\* pill and the title of the current persistentModeEnabled: when the item
\* is created and after every click on it; a click flips the flag once.
VisualMirrorsState ==
  /\ [](QueryPersistentItem(menu) # Null
         => menu[QueryPersistentItem(menu)].toggle
              = [innerHTML |-> createToggleSwitch(persistentModeEnabled),
                 title |-> ToggleTitle(persistentModeEnabled)])
  /\ [][ClicksItem => /\ persistentModeEnabled' = ~persistentModeEnabled
                       /\ localStorage' = BooleanToString(persistentModeEnabled')
                       /\ QueryPersistentItem(menu') = QueryPersistentItem(menu)]_vars

\* C20 witness: the item was created with the mode disabled and clicked
\* twice (the listener installed by the first click is still counted): it
\* shows the disabled toggle again.
VisualMirrorsStateWitness ==
  /\ QueryPersistentItem(menu) # Null
  /\ menu[QueryPersistentItem(menu)].toggle
        = [innerHTML |-> createToggleSwitch(FALSE), title |-> ToggleTitle(FALSE)]
  /\ ~persistentModeEnabled
  /\ visibilityListeners = 1
  /\ events = 2

(***************************************************************************)
(* Item-creation retry (checked under SpecRetry).                          *)
(***************************************************************************)
\* The call of addPersistentPrivacyItem, and whether it makes an attempt in
\* this step: the call itself, or the firing of its retry timer.
AddItemCall == proc["c1"]

AddItemAttempts ==
  /\ proc'["c1"].entry = "addPersistentPrivacyItem"
  /\ Len(proc'["c1"].log) = Len(proc["c1"].log) + 1

IsActiveCall == proc["c1"]

\* The call of isPrivateSessionActive runs in this step.
IsActiveRuns ==
  /\ proc'["c1"].entry = "isPrivateSessionActive"
  /\ proc'["c1"] # proc["c1"]

\* C22: isPrivateSessionActive looks for the indicator at most
\* PS_INDICATOR_RETRIES times, fewer than the PS_RETRY_LIMIT attempts of
\* getElement; it returns true at the attempt that finds the indicator
\* button and false after PS_INDICATOR_RETRIES attempts without one; it
\* clicks nothing, opens no menu, and leaves menuOperationInProgress,
\* lastMenuOperationTime, pendingFocusCheck and persistentModeEnabled as
\* they are.
IsActiveReadOnly ==
  /\ [](/\ PS_INDICATOR_RETRIES < PS_RETRY_LIMIT
        /\ IsActiveCall.entry = "isPrivateSessionActive"
             => /\ Len(IsActiveCall.log) <= PS_INDICATOR_RETRIES
                /\ IsActiveCall.clicks = 0
                /\ IsActiveCall.pc = "done"
                     => /\ IsActiveCall.result \in {"true", "false"}
                        /\ IsActiveCall.result = "true"
                             <=> IsActiveCall.log[Len(IsActiveCall.log)]
                        /\ IsActiveCall.result = "false"
                             => IsActiveCall.log = [i \in 1..PS_INDICATOR_RETRIES |-> FALSE])
  /\ [][IsActiveRuns
          => /\ UNCHANGED << menuOperationInProgress, lastMenuOperationTime,
                            pendingFocusCheck, persistentModeEnabled, menu,
                            menuCloseTimer, menuItemAdded, localStorage >>
             /\ proc'["c1"].log # proc["c1"].log
                  => proc'["c1"].log = Append(proc["c1"].log, indicator)
             /\ proc'["c1"].pc = "done" <=>
                  (indicator \/ Len(proc["c1"].log) = PS_INDICATOR_RETRIES)]_vars

\* C22 witness: the first attempt found no indicator, the host showed it
\* during the delay, and the second attempt returned true; no menu is open.
IsActiveReadOnlyWitness ==
  /\ IsActiveCall.entry = "isPrivateSessionActive"
  /\ IsActiveCall.pc = "done"
  /\ IsActiveCall.log = << FALSE, TRUE >>
  /\ IsActiveCall.result = "true"
  /\ IsActiveCall.clicks = 0
  /\ menu = NoMenu

(***************************************************************************)
(* Listeners of the controller (checked under Spec).                       *)
(***************************************************************************)
\* initializePrivateSession is past its call of enablePersistentMode (lines
\* 803-808).
PastReEnable ==
  \/ proc["boot"].pc = "settle"
  \/ proc["boot"].caller \in {"bootSecond", "start"}

\* C23: at most one window focus listener is registered, and only while
\* focusEventListener holds it and persistentModeEnabled is true; once the
\* bootstrap is past its call of enablePersistentMode, one is registered
\* exactly when persistentModeEnabled is true, whatever toggles the user
\* made; before the flag is loaded it is false and none is registered.
SingleFocusListener ==
  /\ windowFocusListeners <= 1
  /\ focusEventListener <=> windowFocusListeners = 1
  /\ windowFocusListeners = 1 => persistentModeEnabled
  /\ PastReEnable => (persistentModeEnabled <=> windowFocusListeners = 1)
  /\ proc["boot"].loaded = "none" => ~persistentModeEnabled

\* C23 witness: the flag was loaded false, the user enabled the mode through
\* the item during the first activity check, and the bootstrap's
\* enablePersistentMode found the listener installed: one is registered.
SingleFocusListenerWitness ==
  /\ proc["boot"].loaded = "false"
  /\ proc["boot"].pc = "settle"
  /\ persistentModeEnabled
  /\ windowFocusListeners = 1
  /\ visibilityListeners = 1

\* C24: whatever batches the observer was handed, menuItemAdded is true
\* only while a menu with the custom item is in the document: the removal
\* of the menu, of a node that holds the item, or of the item itself clears
\* the flag.
FlagTracksDocument ==
  menuItemAdded => (menu # NoMenu /\ QueryPersistentItem(menu) # Null)

(***************************************************************************)
(* The close-verification timer (checked under Spec).                      *)
(***************************************************************************)
\* The pending close-verification timers.
CloseTimers == {i \in 1..Len(timers) : timers[i].who = "menuClose"}

\* ensureMenuClosed is called in this step: by openMainMenu or by
\* cleanupMenuOperation.
OpensMainMenu(p) == proc'[p].pc = "closeWait" /\ proc[p].pc # "closeWait"
CleansUp(p) == proc'[p].cleaned /\ ~proc[p].cleaned

\* C25: at most one close-verification timer is pending; menuCloseTimer
\* holds a timer exactly when one is pending; after a call of
\* ensureMenuClosed the only timer that can be pending is the one this call
\* set, MENU_CLOSE_RECHECK_MS from now, which openMainMenu sets exactly
\* when it found a menu open and the menu button present.
SingleCloseTimer ==
  /\ [](/\ Cardinality(CloseTimers) <= 1
        /\ menuCloseTimer <=> CloseTimers # {})
  /\ [][\A p \in ProcIds :
          /\ (OpensMainMenu(p) \/ CleansUp(p))
               => \A i \in 1..Len(timers') :
                     timers'[i].who = "menuClose"
                        => timers'[i].at = now + MENU_CLOSE_RECHECK_MS
          /\ OpensMainMenu(p)
               => (menuCloseTimer' <=> (menu # NoMenu /\ mainMenuButton))]_vars

\* C25 witness: an operation opened the menu, clicked, and was cleaned up
\* while the menu was still open: ensureMenuClosed, called by
\* cleanupMenuOperation, closed the menu and left one timer, set at that time.
SingleCloseTimerWitness ==
  \E p \in ProcIds :
     /\ proc[p].cleaned
     /\ proc[p].clicks >= 2
     /\ menuCloseTimer
     /\ Cardinality(CloseTimers) = 1
     /\ \E i \in CloseTimers : timers[i].at = now + MENU_CLOSE_RECHECK_MS
     /\ menu = NoMenu

====
